---- MODULE Spec2Model ----
(***************************************************************************)
(* Kinematic chain engine and task-space PID controller of the 6-DoF arm   *)
(* (roboticsinrust): Joint, DHRow/DHTable, Pose, DHArmModel and            *)
(* TaskSpacePidController.                                                 *)
(*                                                                         *)
(* Numbers.  The program computes in f64.  The model computes in integers  *)
(* on inputs for which every f64 operation of the program is exact:        *)
(*   - angles (degrees and radians) are counted in units of 1e-4, joint    *)
(*     angles and DH angles are multiples of a quarter turn, so that every *)
(*     sine and cosine is -1, 0 or 1;                                      *)
(*   - commanded velocities are counted in units of vel_eps = 1e-4 and the *)
(*     time step dt in units of 1/vel_eps seconds, so that v*dt and w*dt   *)
(*     are whole numbers of length units and of radians;                   *)
(*   - the task-space error, its integral and derivative and the command   *)
(*     u_task are held in quarters (Fx = 4): the orientation error carries *)
(*     a factor 0.5 and the derivative a division by dt \in {1, 2};        *)
(*   - the pseudo-inverse and the joint command are exact rationals        *)
(*     [num, den].                                                         *)
(* Option<T> is a sequence: << >> is None and <<x>> is Some(x).            *)
(***************************************************************************)
EXTENDS Integers, Sequences, FiniteSets, TLC

VARIABLES
    arm,        \* DHArmModel: dh_table, joints, jacobian, inv_jacobian, dirty, damping
    ctl,        \* TaskSpacePidController: gains, PID state, reference, holding, cycle_count
    joint,      \* a Joint on its own (joint.rs)
    call,       \* the operation that ran last, with its arguments
    ret,        \* what that operation returned: [panic, val]
    recomputes, \* number of Jacobian recomputations the last operation caused
    warnings,   \* number of warning lines the last operation wrote to stderr
    hist,       \* observation of the run: number of compute calls, number of them
                \* with an active command, whether the last one was inactive
    sim         \* Option<ArmSim>: task_vel, joint_vars, dt (its arm is the variable arm)

vars == <<arm, ctl, joint, call, ret, recomputes, warnings, hist, sim>>

\* ------------------------------------------------------------------------
\* Arithmetic helpers
\* ------------------------------------------------------------------------

Abs(x) == IF x < 0 THEN -x ELSE x

\* Op applied to the value v (a local variable of the program).
Bind(v, Op(_)) == Op(v)

\* Division rounding toward zero.
Trunc(n, d) == IF n >= 0 THEN n \div d ELSE -((-n) \div d)

RECURSIVE Gcd(_, _)
Gcd(a, b) == IF b = 0 THEN Abs(a) ELSE Gcd(Abs(b), Abs(a) % Abs(b))

\* f64::to_radians: x * pi / 180, with pi = 355/113, in the fixed-point unit of x.
ToRadians(x) == Trunc(x * 355, 20340)

\* The fixed-point value of a quarter turn (pi/2 at 1e-4): 15708.
\* Number of quarter turns nearest to the angle r.
QuarterTurns(r) == (r + 7854) \div 15708

\* f64::sin_cos on angles that are whole quarter turns.
Sin(r) == LET k == QuarterTurns(r) % 4
          IN  IF k = 1 THEN 1 ELSE IF k = 3 THEN -1 ELSE 0

Cos(r) == LET k == QuarterTurns(r) % 4
          IN  IF k = 0 THEN 1 ELSE IF k = 2 THEN -1 ELSE 0

\* ------------------------------------------------------------------------
\* Vectors and matrices (nalgebra): a vector is a tuple, a matrix a tuple of rows
\* ------------------------------------------------------------------------

\* The function f on 1..n as an evaluated tuple.
Tuple(f) == f \o << >>

Zeros(n) == Tuple([i \in 1..n |-> 0])

ZeroMat(r, c) == Tuple([i \in 1..r |-> Zeros(c)])

Identity(n) == Tuple([i \in 1..n |-> Tuple([j \in 1..n |-> IF i = j THEN 1 ELSE 0])])

RECURSIVE SumTo(_, _)
SumTo(f, n) == IF n = 0 THEN 0 ELSE f[n] + SumTo(f, n - 1)

Dot(u, v) == SumTo(Tuple([i \in 1..Len(u) |-> u[i] * v[i]]), Len(u))

VecAdd(u, v) == Tuple([i \in 1..Len(u) |-> u[i] + v[i]])

VecSub(u, v) == Tuple([i \in 1..Len(u) |-> u[i] - v[i]])

VecScale(u, k) == Tuple([i \in 1..Len(u) |-> u[i] * k])

\* component_mul
ComponentMul(u, v) == Tuple([i \in 1..Len(u) |-> u[i] * v[i]])

Cross(u, v) == << u[2] * v[3] - u[3] * v[2],
                  u[3] * v[1] - u[1] * v[3],
                  u[1] * v[2] - u[2] * v[1] >>

NRows(m) == Len(m)

NCols(m) == IF Len(m) = 0 THEN 0 ELSE Len(m[1])

Column(m, j) == Tuple([i \in 1..NRows(m) |-> m[i][j]])

Transpose(m) == Tuple([j \in 1..NCols(m) |-> Column(m, j)])

MatVec(a, v) == Tuple([i \in 1..NRows(a) |-> Dot(a[i], v)])

\* a * b, computed on the transpose of b
MatMulT(a, bt) == Tuple([i \in 1..NRows(a) |-> MatVec(bt, a[i])])

MatMul(a, b) == MatMulT(a, Transpose(b))

ScaleMat(m, k) == Tuple([i \in 1..NRows(m) |-> VecScale(m[i], k)])

MatAdd(a, b) == Tuple([i \in 1..NRows(a) |-> VecAdd(a[i], b[i])])

\* The matrix m without row i and column j.
Minor(m, i, j) ==
    Tuple([r \in 1..(NRows(m) - 1) |->
        Tuple([c \in 1..(NCols(m) - 1) |->
            m[IF r < i THEN r ELSE r + 1][IF c < j THEN c ELSE c + 1]])])

RECURSIVE Det(_)
Det(m) ==
    IF NRows(m) = 0 THEN 1
    ELSE IF NRows(m) = 1 THEN m[1][1]
    ELSE SumTo(Tuple([j \in 1..NCols(m) |->
                   IF m[1][j] = 0 THEN 0
                   ELSE (IF j % 2 = 1 THEN 1 ELSE -1) * m[1][j] * Det(Minor(m, 1, j))]),
               NCols(m))

\* Adjugate: Adjugate(m) / Det(m) is the inverse of m.
Adjugate(m) ==
    Tuple([i \in 1..NRows(m) |->
        Tuple([j \in 1..NCols(m) |->
            (IF (i + j) % 2 = 0 THEN 1 ELSE -1) * Det(Minor(m, j, i))])])

\* ------------------------------------------------------------------------
\* Joint (joint.rs)
\* ------------------------------------------------------------------------

\* Joint::new: position and velocity start at 0; the limits of a revolute
\* joint are given in degrees and stored in radians.
JointNew(joint_type, limit_min, limit_max) ==
    LET conv(val) == IF joint_type = "Revolute" THEN ToRadians(val) ELSE val
    IN  [ joint_type |-> joint_type,
          position   |-> 0,
          velocity   |-> 0,
          limit_min  |-> IF limit_min = << >> THEN << >> ELSE << conv(limit_min[1]) >>,
          limit_max  |-> IF limit_max = << >> THEN << >> ELSE << conv(limit_max[1]) >> ]

\* Joint::set_position: convert, then clamp to limit_min, then to limit_max.
SetPosition(jt, pos) ==
    LET p0 == IF jt.joint_type = "Revolute" THEN ToRadians(pos) ELSE pos
        p1 == IF jt.limit_min # << >> /\ p0 < jt.limit_min[1] THEN jt.limit_min[1] ELSE p0
        p2 == IF jt.limit_max # << >> /\ p1 > jt.limit_max[1] THEN jt.limit_max[1] ELSE p1
    IN  [jt EXCEPT !.position = p2]

\* Joint::set_velocity
SetVelocity(jt, vel) ==
    [jt EXCEPT !.velocity = IF jt.joint_type = "Revolute" THEN ToRadians(vel) ELSE vel]

\* ------------------------------------------------------------------------
\* Pose, DHRow, DHTable (dh.rs)
\* ------------------------------------------------------------------------

\* Pose::from_homogeneous
FromHomogeneous(m) ==
    [ position |-> << m[1][4], m[2][4], m[3][4] >>,
      rotation |-> Tuple([i \in 1..3 |-> Tuple([j \in 1..3 |-> m[i][j]])]) ]

\* Pose::x_axis, y_axis, z_axis: columns 0, 1, 2 of the rotation.
XAxis(pose) == Column(pose.rotation, 1)

YAxis(pose) == Column(pose.rotation, 2)

ZAxis(pose) == Column(pose.rotation, 3)

\* DHRow::new: alpha and theta are given in degrees and stored in radians.
DHRowNew(a, alpha, d, theta, fixed_frame, joint_index) ==
    [ a |-> a, alpha |-> ToRadians(alpha), d |-> d, theta |-> ToRadians(theta),
      fixed_frame |-> fixed_frame, joint_index |-> joint_index ]

\* DHRow::dh_row_matrix
DhRowMatrixNoLinkLength(a, alpha, d, theta) ==
    LET st == Sin(theta)
        ct == Cos(theta)
        sa == Sin(alpha)
        ca == Cos(alpha)
    IN  << << ct,      -st,     0,   0       >>,
           << ca * st, ca * ct, -sa, -d * sa >>,
           << sa * st, sa * ct, ca,  d * ca  >>,
           << 0,       0,       0,   1       >> >>

DhRowMatrix(a, alpha, d, theta) ==
    LET st == Sin(theta)
        ct == Cos(theta)
        sa == Sin(alpha)
        ca == Cos(alpha)
    IN  << << ct,      -st,     0,   a       >>,
           << ca * st, ca * ct, -sa, -d * sa >>,
           << sa * st, sa * ct, ca,  d * ca  >>,
           << 0,       0,       0,   1       >> >>

\* A row transform that lets the joint of a fixed row move it as well.
GetRowTransMatMovesFixed(row, joints) ==
    LET jt == joints[row.joint_index[1] + 1]
        moved == row.joint_index # << >>
        theta_total == IF moved /\ jt.joint_type = "Revolute"
                       THEN row.theta + jt.position ELSE row.theta
        d_total     == IF moved /\ jt.joint_type # "Revolute"
                       THEN row.d + jt.position ELSE row.d
    IN  DhRowMatrix(row.a, row.alpha, d_total, theta_total)

\* DHRow::get_row_trans_mat (joint index idx is 0-based in the program)
GetRowTransMat(row, joints) ==
    LET jt == joints[row.joint_index[1] + 1]
        theta_total == IF row.fixed_frame THEN row.theta
                       ELSE IF jt.joint_type = "Revolute" THEN row.theta + jt.position
                       ELSE row.theta
        d_total     == IF row.fixed_frame THEN row.d
                       ELSE IF jt.joint_type = "Revolute" THEN row.d
                       ELSE row.d + jt.position
    IN  DhRowMatrix(row.a, row.alpha, d_total, theta_total)

\* The chain multiplied in the opposite order: row i - 1 first, row j last.
RECURSIVE ChainProductReversed(_, _, _, _)
ChainProductReversed(rows, joints, j, i) ==
    IF i <= j THEN Identity(4)
    ELSE MatMul(GetRowTransMat(rows[i], joints), ChainProductReversed(rows, joints, j, i - 1))

\* The loop   for f in j..i { transform *= rows[f].get_row_trans_mat(joints) }
\* started from the identity (row f of the program is rows[f + 1] here).
RECURSIVE ChainProduct(_, _, _, _)
ChainProduct(rows, joints, j, i) ==
    IF i <= j THEN Identity(4)
    ELSE MatMul(ChainProduct(rows, joints, j, i - 1), GetRowTransMat(rows[i], joints))

Fault == [panic |-> TRUE, val |-> << >>]

Returns(v) == [panic |-> FALSE, val |-> v]

\* DHTable::transformation_matrix_j_i
TransformationMatrixJI(rows, j, i, joints) ==
    IF ~(j < i /\ i <= Len(rows)) THEN Fault
    ELSE Returns(ChainProduct(rows, joints, j, i))

\* DHTable::pose_between_j_i
PoseBetweenJI(rows, j, i, joints) ==
    IF ~(j < i /\ i <= Len(rows)) THEN Fault
    ELSE Returns(FromHomogeneous(ChainProduct(rows, joints, j, i)))

\* DHTable::all_poses: poses[i] is the pose of the product of rows 0..=i.
AllPosesRestartEachFrame(rows, joints) ==
    Tuple([i \in 1..Len(rows) |-> FromHomogeneous(ChainProduct(rows, joints, i - 1, i))])

AllPoses(rows, joints) ==
    Tuple([i \in 1..Len(rows) |-> FromHomogeneous(ChainProduct(rows, joints, 0, i))])

\* DHTable::get_frame_pose: the product of rows 0..frame_index (exclusive).
GetFramePose(rows, frame_index, joints) ==
    IF ~(frame_index < Len(rows)) THEN Fault
    ELSE Returns(FromHomogeneous(ChainProduct(rows, joints, 0, frame_index)))

\* A Jacobian column computed with the lever arm p_i - p_end.
JacobianColumnReversedArm(rows, joints, poses, i, jac) ==
    LET row   == rows[i]
        q     == row.joint_index[1] + 1
        z_i   == ZAxis(poses[i])
        p_diff == VecSub(poses[i].position, poses[Len(rows)].position)
        lin   == IF joints[q].joint_type = "Revolute" THEN Cross(z_i, p_diff) ELSE z_i
        ang   == IF joints[q].joint_type = "Revolute" THEN z_i ELSE Zeros(3)
    IN  IF row.fixed_frame THEN jac
        ELSE Bind(lin \o ang, LAMBDA col :
               Tuple([k \in 1..6 |->
                   Tuple([c \in 1..Len(joints) |-> IF c = q THEN col[k] ELSE jac[k][c]])]))

\* One pass of the loop of compute_jacobian over row i (1-based), writing
\* column joint_index of the matrix jac (6 x J).
JacobianColumn(rows, joints, poses, i, jac) ==
    LET row   == rows[i]
        q     == row.joint_index[1] + 1
        z_i   == ZAxis(poses[i])
        p_diff == VecSub(poses[Len(rows)].position, poses[i].position)
        lin   == IF joints[q].joint_type = "Revolute" THEN Cross(z_i, p_diff) ELSE z_i
        ang   == IF joints[q].joint_type = "Revolute" THEN z_i ELSE Zeros(3)
    IN  IF row.fixed_frame THEN jac
        ELSE Bind(lin \o ang, LAMBDA col :
               Tuple([k \in 1..6 |->
                   Tuple([c \in 1..Len(joints) |-> IF c = q THEN col[k] ELSE jac[k][c]])]))

\* A loop that visits the rows from the last to the first, so that of two
\* rows naming one joint the earlier one is written last.
RECURSIVE JacobianLoopFirstWins(_, _, _, _)
JacobianLoopFirstWins(rows, joints, poses, n) ==
    IF n = 0 THEN ZeroMat(6, Len(joints))
    ELSE JacobianColumn(rows, joints, poses, Len(rows) - n + 1,
                        JacobianLoopFirstWins(rows, joints, poses, n - 1))

RECURSIVE JacobianLoop(_, _, _, _)
JacobianLoop(rows, joints, poses, n) ==
    IF n = 0 THEN ZeroMat(6, Len(joints))
    ELSE JacobianColumn(rows, joints, poses, n, JacobianLoop(rows, joints, poses, n - 1))

\* DHTable::compute_jacobian
ComputeJacobian(rows, joints) ==
    JacobianLoop(rows, joints, AllPoses(rows, joints), Len(rows))

\* A rational number num / den; a whole number n is n / 1.
Whole(n) == [num |-> n, den |-> 1]

\* lambda.unwrap_or(1e-4)
DefaultLambda == [num |-> 1, den |-> 10000]

\* try_inverse: None for a singular matrix, else the inverse as the exact
\* rational matrix adjugate / determinant.
TryInverse(m) ==
    Bind(Det(m), LAMBDA dt :
        IF dt = 0 THEN << >> ELSE << [num |-> Adjugate(m), den |-> dt] >>)

\* damped_inner: m with lambda^2 added on the diagonal, for lambda =
\* num / den, held as the whole matrix den^2 * (m + lambda^2 * I).
DampedInner(m, lambda_val) ==
    Tuple([i \in 1..NRows(m) |->
        Tuple([j \in 1..NCols(m) |->
            lambda_val.den * lambda_val.den * m[i][j]
              + (IF i = j THEN lambda_val.num * lambda_val.num ELSE 0)])])

\* A branch choice that takes the left inverse for every joint count.
UseRightInverseNever(nj) == nj < 0

\* if J >= 6 { right pseudo-inverse } else { left pseudo-inverse }
UseRightInverse(nj) == nj >= 6

\* The matrix handed to try_inverse: J * J^T damped in the right branch,
\* J^T * J damped in the left one.
InverseArgument(jac, lambda_val) ==
    IF UseRightInverse(NCols(jac))
    THEN DampedInner(MatMul(jac, Transpose(jac)), lambda_val)
    ELSE DampedInner(MatMul(Transpose(jac), jac), lambda_val)

\* A pseudo-inverse that returns the zero matrix without a warning.
PseudoInverseOutcomeSilent(jac, lambda_val) ==
    Bind(TryInverse(InverseArgument(jac, lambda_val)), LAMBDA inv :
        IF inv = << >>
        THEN [val |-> [num |-> ZeroMat(NCols(jac), 6), den |-> 1], warned |-> FALSE]
        ELSE [val |-> [num |-> ScaleMat(IF UseRightInverse(NCols(jac))
                                        THEN MatMul(Transpose(jac), inv[1].num)
                                        ELSE MatMul(inv[1].num, Transpose(jac)),
                                        lambda_val.den * lambda_val.den),
                       den |-> inv[1].den],
              warned |-> FALSE])

\* Steps 2 and 3 of damped_moore_penrose_pseudo_inverse: the matrix
\* returned, exact as num / den (J x 6), and whether a warning was printed.
PseudoInverseOutcome(jac, lambda_val) ==
    Bind(TryInverse(InverseArgument(jac, lambda_val)), LAMBDA inv :
        IF inv = << >>
        THEN [val |-> [num |-> ZeroMat(NCols(jac), 6), den |-> 1], warned |-> TRUE]
        ELSE [val |-> [num |-> ScaleMat(IF UseRightInverse(NCols(jac))
                                        THEN MatMul(Transpose(jac), inv[1].num)
                                        ELSE MatMul(inv[1].num, Transpose(jac)),
                                        lambda_val.den * lambda_val.den),
                       den |-> inv[1].den],
              warned |-> FALSE])

\* Step 1 of damped_moore_penrose_pseudo_inverse: the Jacobian handed in or
\* computed, and lambda or its default.
PseudoInverseCall(rows, joints, maybe_j, lambda) ==
    PseudoInverseOutcome(IF maybe_j = << >> THEN ComputeJacobian(rows, joints)
                                            ELSE maybe_j[1],
                         IF lambda = << >> THEN DefaultLambda ELSE lambda[1])

\* DHTable::damped_moore_penrose_pseudo_inverse: the matrix returned.
DampedMoorePenrosePseudoInverse(rows, joints, maybe_j, lambda) ==
    PseudoInverseCall(rows, joints, maybe_j, lambda).val

\* Number of warnings damped_moore_penrose_pseudo_inverse prints.
PseudoInverseWarnings(rows, joints, maybe_j, lambda) ==
    IF PseudoInverseCall(rows, joints, maybe_j, lambda).warned THEN 1 ELSE 0

\* ------------------------------------------------------------------------
\* DHArmModel (dh_arm_model.rs); Arm (arm.rs) has the same cache logic
\* ------------------------------------------------------------------------

\* DHArmModel::new; damping is None or Some(lambda)
ArmNew(dh_table, joints, damping) ==
    [ dh_table     |-> dh_table,
      joints       |-> joints,
      jacobian     |-> << >>,
      inv_jacobian |-> << >>,
      dirty        |-> TRUE,
      damping      |-> IF damping = << >> THEN DefaultLambda ELSE damping[1] ]

\* A setter that stores the positions and leaves the dirty flag as it is.
ArmSetJointPositionsKeepClean(a, positions) ==
    [a EXCEPT !.joints = Tuple([k \in 1..Len(a.joints) |-> SetPosition(a.joints[k], positions[k])])]

\* DHArmModel::set_joint_positions
ArmSetJointPositions(a, positions) ==
    [a EXCEPT !.joints = Tuple([k \in 1..Len(a.joints) |-> SetPosition(a.joints[k], positions[k])]),
              !.dirty  = TRUE]

\* DHArmModel::set_joint_velocities
ArmSetJointVelocities(a, velocities) ==
    [a EXCEPT !.joints = Tuple([k \in 1..Len(a.joints) |-> SetVelocity(a.joints[k], velocities[k])]),
              !.dirty  = TRUE]

\* An update that recomputes and leaves the dirty flag set.
ArmUpdateKeepDirty(a) ==
    IF a.dirty
    THEN LET j == ComputeJacobian(a.dh_table, a.joints)
         IN  [a EXCEPT !.jacobian     = << j >>,
                       !.inv_jacobian = << DampedMoorePenrosePseudoInverse(a.dh_table, a.joints,
                                              << j >>, << a.damping >>) >>]
    ELSE a

\* DHArmModel::update
ArmUpdate(a) ==
    IF a.dirty
    THEN LET j == ComputeJacobian(a.dh_table, a.joints)
         IN  [a EXCEPT !.jacobian     = << j >>,
                       !.inv_jacobian = << DampedMoorePenrosePseudoInverse(a.dh_table, a.joints,
                                              << j >>, << a.damping >>) >>,
                       !.dirty        = FALSE]
    ELSE a

\* Number of times update() runs compute_jacobian and the pseudo-inverse.
UpdateRecomputes(a) == IF a.dirty THEN 1 ELSE 0

\* Number of warnings update() causes to be printed.
UpdateWarnings(a) ==
    IF a.dirty
    THEN PseudoInverseWarnings(a.dh_table, a.joints,
                               << ComputeJacobian(a.dh_table, a.joints) >>, << a.damping >>)
    ELSE 0

\* DHArmModel::frame_pose
FramePose(a, frame_index) == GetFramePose(a.dh_table, frame_index, a.joints)

\* DHArmModel::frame_poses
FramePoses(a) == AllPoses(a.dh_table, a.joints)

\* ------------------------------------------------------------------------
\* TaskSpacePidController (task_space_pid_controller.rs)
\* ------------------------------------------------------------------------

\* vel_eps = 1e-4, the unit in which commanded velocities are counted.
VelEps == 1

\* orthonorm_interval
OrthonormInterval == 50

\* Denominator of the task-space quantities error, integral_error, prev_error,
\* d_error and u_task: a stored value n stands for n / Fx.
Fx == 4

\* TaskSpacePidController::new
ControllerNew(kp, ki, kd) ==
    [ kp |-> kp, ki |-> ki, kd |-> kd,
      integral_error |-> Zeros(6),
      prev_error     |-> Zeros(6),
      x_ref          |-> Zeros(3),
      r_ref          |-> Identity(3),
      holding        |-> FALSE,
      cycle_count    |-> 0 ]

\* A norm test that a norm equal to eps passes.
NormReaches(v, eps) == Dot(v, v) >= eps * eps

\* v.norm() > eps, for eps >= 0
NormExceeds(v, eps) == Dot(v, v) > eps * eps

\* joystick_active
JoystickActive(v_des_world, w_des_ee) ==
    NormExceeds(v_des_world, VelEps) \/ NormExceeds(w_des_ee, VelEps)

\* An integration that applies the increment on the right: r * (I + [w]x * dt)
IntegrateOrientationRight(r, w, dt) ==
    LET d_r == MatAdd(<< << 0,          -(w[3] * dt), w[2] * dt    >>,
                         << w[3] * dt,  0,            -(w[1] * dt) >>,
                         << -(w[2] * dt), w[1] * dt,  0            >> >>,
                      Identity(3))
    IN  MatMul(r, d_r)

\* TaskSpacePidController::integrate_orientation: (I + [w]x * dt) * r
IntegrateOrientation(r, w, dt) ==
    LET d_r == MatAdd(<< << 0,          -(w[3] * dt), w[2] * dt    >>,
                         << w[3] * dt,  0,            -(w[1] * dt) >>,
                         << -(w[2] * dt), w[1] * dt,  0            >> >>,
                      Identity(3))
    IN  MatMul(d_r, r)

\* Largest s with s * s <= n.
RECURSIVE IsqrtFrom(_, _)
IsqrtFrom(n, s) == IF (s + 1) * (s + 1) > n THEN s ELSE IsqrtFrom(n, s + 1)

Isqrt(n) == IsqrtFrom(n, 0)

\* A matrix r = Q * D with Q orthonormal with whole entries and D a positive
\* diagonal matrix of whole numbers: the matrices whose U * V^T is exact here.
SvdExact(r) ==
    /\ \A i, j \in 1..3 : i # j => Dot(Column(r, i), Column(r, j)) = 0
    /\ \A j \in 1..3 :
          LET n2 == Dot(Column(r, j), Column(r, j))
          IN  /\ n2 > 0
              /\ Isqrt(n2) * Isqrt(n2) = n2
              /\ \A i \in 1..3 : r[i][j] % Isqrt(n2) = 0

\* TaskSpacePidController::svd_orthonormalize: U * V^T of the SVD of r, the
\* orthonormal factor Q of r = Q * D.
SvdOrthonormalize(r) ==
    Tuple([i \in 1..3 |->
        Tuple([j \in 1..3 |-> r[i][j] \div Isqrt(Dot(Column(r, j), Column(r, j)))])])

\* A reference update that captures the pose in every hold cycle.
UpdateReferenceRecapture(c, joystick_active, wrist_pose, v_des_world, w_des_world, dt) ==
    IF joystick_active
    THEN LET integrated == IntegrateOrientation(c.r_ref, w_des_world, dt)
             count      == c.cycle_count + 1
         IN  [c EXCEPT !.holding     = FALSE,
                       !.x_ref       = VecAdd(c.x_ref, VecScale(v_des_world, dt)),
                       !.r_ref       = IF count % OrthonormInterval = 0
                                       THEN SvdOrthonormalize(integrated)
                                       ELSE integrated,
                       !.cycle_count = count]
    ELSE [c EXCEPT !.x_ref   = wrist_pose.position,
                   !.r_ref   = wrist_pose.rotation,
                   !.holding = TRUE]

\* A reference update whose capture starts the count of tracking cycles anew.
UpdateReferenceResetCount(c, joystick_active, wrist_pose, v_des_world, w_des_world, dt) ==
    IF joystick_active
    THEN LET integrated == IntegrateOrientation(c.r_ref, w_des_world, dt)
             count      == c.cycle_count + 1
         IN  [c EXCEPT !.holding     = FALSE,
                       !.x_ref       = VecAdd(c.x_ref, VecScale(v_des_world, dt)),
                       !.r_ref       = IF count % OrthonormInterval = 0
                                       THEN SvdOrthonormalize(integrated)
                                       ELSE integrated,
                       !.cycle_count = count]
    ELSE IF ~c.holding
         THEN [c EXCEPT !.x_ref       = wrist_pose.position,
                        !.r_ref       = wrist_pose.rotation,
                        !.holding     = TRUE,
                        !.cycle_count = 0]
         ELSE c

\* A reference update whose first tracking cycle starts from the measured pose.
UpdateReferenceFromPose(c, joystick_active, wrist_pose, v_des_world, w_des_world, dt) ==
    IF joystick_active
    THEN LET x_start    == IF c.cycle_count = 0 THEN wrist_pose.position ELSE c.x_ref
             r_start    == IF c.cycle_count = 0 THEN wrist_pose.rotation ELSE c.r_ref
             integrated == IntegrateOrientation(r_start, w_des_world, dt)
             count      == c.cycle_count + 1
         IN  [c EXCEPT !.holding     = FALSE,
                       !.x_ref       = VecAdd(x_start, VecScale(v_des_world, dt)),
                       !.r_ref       = IF count % OrthonormInterval = 0
                                       THEN SvdOrthonormalize(integrated)
                                       ELSE integrated,
                       !.cycle_count = count]
    ELSE IF ~c.holding
         THEN [c EXCEPT !.x_ref   = wrist_pose.position,
                        !.r_ref   = wrist_pose.rotation,
                        !.holding = TRUE]
         ELSE c

\* Step 5 of compute: the reference update (tracking or hold).
UpdateReference(c, joystick_active, wrist_pose, v_des_world, w_des_world, dt) ==
    IF joystick_active
    THEN LET integrated == IntegrateOrientation(c.r_ref, w_des_world, dt)
             count      == c.cycle_count + 1
         IN  [c EXCEPT !.holding     = FALSE,
                       !.x_ref       = VecAdd(c.x_ref, VecScale(v_des_world, dt)),
                       !.r_ref       = IF count % OrthonormInterval = 0
                                       THEN SvdOrthonormalize(integrated)
                                       ELSE integrated,
                       !.cycle_count = count]
    ELSE IF ~c.holding
         THEN [c EXCEPT !.x_ref   = wrist_pose.position,
                        !.r_ref   = wrist_pose.rotation,
                        !.holding = TRUE]
         ELSE c

\* Steps 6-8 of compute: the 6-D task-space error (in units of 1 / Fx).
TaskError(x_ref, r_ref, wrist_pose) ==
    LET e_pos == VecSub(x_ref, wrist_pose.position)
        sum   == VecAdd(VecAdd(Cross(XAxis(wrist_pose), Column(r_ref, 1)),
                               Cross(YAxis(wrist_pose), Column(r_ref, 2))),
                        Cross(ZAxis(wrist_pose), Column(r_ref, 3)))
    IN  VecScale(e_pos, Fx) \o VecScale(sum, Fx \div 2)

\* A derivative term that is the bare difference of the errors.
DErrorNoDt(error, prev_error, dt) ==
    Tuple([i \in 1..6 |-> error[i] - prev_error[i]])

\* (error - prev_error) / dt
DError(error, prev_error, dt) ==
    Tuple([i \in 1..6 |-> Trunc(error[i] - prev_error[i], dt)])

\* u_task = xd_des_world + kp.*error + ki.*integral_error + kd.*d_error
UTask(c, xd_des_world, error, integral_error, d_error) ==
    VecAdd(VecAdd(VecAdd(VecScale(xd_des_world, Fx),
                         ComponentMul(c.kp, error)),
                  ComponentMul(c.ki, integral_error)),
           ComponentMul(c.kd, d_error))

\* A rational vector in lowest terms with a positive denominator.
Reduce(q) ==
    LET RECURSIVE GcdAll(_, _)
        GcdAll(g, n) == IF n = 0 THEN g ELSE GcdAll(Gcd(g, q.num[n]), n - 1)
        g == GcdAll(Abs(q.den), Len(q.num))
    IN  [num |-> Tuple([i \in 1..Len(q.num) |-> q.num[i] \div g]), den |-> q.den \div g]

\* f64::to_degrees of every component: x * 180 / pi, with pi = 355/113.
ToDegreesAll(q) == Reduce([num |-> VecScale(q.num, 4068), den |-> q.den * 71])

\* qd_task = inv_jacobian * u_task
QdTask(inv_jacobian, u_task) ==
    Reduce([num |-> MatVec(inv_jacobian.num, u_task), den |-> inv_jacobian.den * Fx])

\* Step 11 of compute: the returned array.
QdArray(qd_task) == ToDegreesAll(qd_task)

\* Steps 6-11 of compute with an integral that starts anew in the hold mode.
ComputePidResetOnHold(c1, a1, xd_des_world, error, dt) ==
    LET integral == IF c1.holding THEN VecScale(error, dt)
                    ELSE VecAdd(c1.integral_error, VecScale(error, dt))
        d_error  == DError(error, c1.prev_error, dt)
    IN  Bind(UTask(c1, xd_des_world, error, integral, d_error), LAMBDA u_task :
        Bind(ArmUpdate(a1), LAMBDA a2 :
          [ ctl |-> [c1 EXCEPT !.integral_error = integral, !.prev_error = error],
            arm |-> a2,
            ret |-> QdArray(QdTask(a2.inv_jacobian[1], u_task)),
            u_task |-> u_task,
            recomputes |-> UpdateRecomputes(a1),
            warnings |-> UpdateWarnings(a1) ]))

\* Steps 6-11 of compute, given the arm after the setters, the pose read in
\* step 2, the reference updated in step 5 and the error of steps 6-8.
ComputePid(c1, a1, xd_des_world, error, dt) ==
    LET integral == VecAdd(c1.integral_error, VecScale(error, dt))
        d_error  == DError(error, c1.prev_error, dt)
    IN  Bind(UTask(c1, xd_des_world, error, integral, d_error), LAMBDA u_task :
        Bind(ArmUpdate(a1), LAMBDA a2 :
          [ ctl |-> [c1 EXCEPT !.integral_error = integral, !.prev_error = error],
            arm |-> a2,
            ret |-> QdArray(QdTask(a2.inv_jacobian[1], u_task)),
            u_task |-> u_task,
            recomputes |-> UpdateRecomputes(a1),
            warnings |-> UpdateWarnings(a1) ]))

\* Steps 3-5 of compute with the error taken against the reference as it was
\* before the reference update.
ComputeReferenceErrorFirst(c, a1, wrist_pose, xd_des_arr, dt) ==
    LET v_des_world == << xd_des_arr[1], xd_des_arr[2], xd_des_arr[3] >>
        w_des_ee    == << ToRadians(xd_des_arr[4]), ToRadians(xd_des_arr[5]),
                          ToRadians(xd_des_arr[6]) >>
    IN  Bind(MatVec(wrist_pose.rotation, w_des_ee), LAMBDA w_des_world :
        Bind(UpdateReference(c, JoystickActive(v_des_world, w_des_ee),
                             wrist_pose, v_des_world, w_des_world, dt), LAMBDA c1 :
        Bind(TaskError(c.x_ref, c.r_ref, wrist_pose), LAMBDA error :
          ComputePid(c1, a1, v_des_world \o w_des_world, error, dt))))

\* Steps 3-5 of compute, given the arm after the setters and the pose of step 2.
ComputeReference(c, a1, wrist_pose, xd_des_arr, dt) ==
    LET v_des_world == << xd_des_arr[1], xd_des_arr[2], xd_des_arr[3] >>
        w_des_ee    == << ToRadians(xd_des_arr[4]), ToRadians(xd_des_arr[5]),
                          ToRadians(xd_des_arr[6]) >>
    IN  Bind(MatVec(wrist_pose.rotation, w_des_ee), LAMBDA w_des_world :
        Bind(UpdateReference(c, JoystickActive(v_des_world, w_des_ee),
                             wrist_pose, v_des_world, w_des_world, dt), LAMBDA c1 :
        Bind(TaskError(c1.x_ref, c1.r_ref, wrist_pose), LAMBDA error :
          ComputePid(c1, a1, v_des_world \o w_des_world, error, dt))))

\* TaskSpacePidController::compute: the controller and the arm after the call,
\* the value returned, u_task, and the number of Jacobian recomputations.
Compute(c, a, xd_des_arr, motor_pos, motor_vels, dt) ==
    Bind(ArmSetJointVelocities(ArmSetJointPositions(a, motor_pos), motor_vels), LAMBDA a1 :
    Bind(FramePose(a1, Len(a1.dh_table) - 1).val, LAMBDA wrist_pose :
      ComputeReference(c, a1, wrist_pose, xd_des_arr, dt)))

\* ------------------------------------------------------------------------
\* The arms and the inputs of the model
\* ------------------------------------------------------------------------

\* Two revolute joints and a fixed end-effector offset (F = 3, J = 2).
RowsRR == << DHRowNew(0, 0, 1, 0, FALSE, << 0 >>),
             DHRowNew(2, -900000, 0, 0, FALSE, << 1 >>),
             DHRowNew(0, 0, 1, 0, TRUE, << >>) >>

JointsRR == << JointNew("Revolute", << >>, << >>),
               JointNew("Revolute", << -900000 >>, << 900000 >>) >>

\* A revolute and a prismatic joint and a fixed end-effector offset.
RowsRP == << DHRowNew(0, 0, 1, 900000, FALSE, << 0 >>),
             DHRowNew(1, 900000, 1, 0, FALSE, << 1 >>),
             DHRowNew(2, 0, 0, 900000, TRUE, << >>) >>

JointsRP == << JointNew("Revolute", << >>, << >>),
               JointNew("Prismatic", << 0 >>, << 2 >>) >>

ArmRR == ArmNew(RowsRR, JointsRR, << Whole(1) >>)

ArmRP == ArmNew(RowsRP, JointsRP, << Whole(0) >>)

\* Values handed to set_position / set_velocity of one joint: degrees (in
\* 1e-4 degree) for a revolute joint, lengths for a prismatic joint.
PosValues(jt) == IF jt.joint_type = "Revolute" THEN {0, 900000, 1800000} ELSE {0, 1, 3}

VelValues(jt) == IF jt.joint_type = "Revolute" THEN {0, 600000} ELSE {0, 1}

PosInputs(a) == {p \in [1..Len(a.joints) -> Int \cap {0, 1, 3, 900000, 1800000}] :
                    \A k \in 1..Len(a.joints) : p[k] \in PosValues(a.joints[k])}

VelInputs(a) == {v \in [1..Len(a.joints) -> {0, 1, 600000}] :
                    \A k \in 1..Len(a.joints) : v[k] \in VelValues(a.joints[k])}

NoCall == [name |-> "new"]

\* The record of the calls made so far: their number, the number of tracking
\* cycles, whether the last command was a release, the sum of error * dt over
\* the calls, and the error of the last call.
NoHist == [cycles |-> 0, tracking |-> 0, released |-> FALSE,
           sum_error_dt |-> Zeros(6), last_error |-> Zeros(6)]

NoSim == << >>

FreshController == ControllerNew(Zeros(6), Zeros(6), Zeros(6))

FreshJoint == JointNew("Revolute", << >>, << >>)

\* ------------------------------------------------------------------------
\* The arm on its own: setters, cache queries
\* ------------------------------------------------------------------------

InitArm ==
    /\ arm \in {ArmRR, ArmRP}
    /\ ctl = FreshController
    /\ joint = FreshJoint
    /\ call = NoCall
    /\ ret = Returns(<< >>)
    /\ recomputes = 0
    /\ warnings = 0
    /\ hist = NoHist
    /\ sim = NoSim

DoSetJointPositions ==
    \E positions \in PosInputs(arm) :
        /\ arm' = ArmSetJointPositions(arm, positions)
        /\ call' = [name |-> "set_joint_positions", positions |-> positions]
        /\ ret' = Returns(<< >>)
        /\ recomputes' = 0
        /\ warnings' = 0
        /\ UNCHANGED <<ctl, joint, hist, sim>>

DoSetJointVelocities ==
    \E velocities \in VelInputs(arm) :
        /\ arm' = ArmSetJointVelocities(arm, velocities)
        /\ call' = [name |-> "set_joint_velocities", velocities |-> velocities]
        /\ ret' = Returns(<< >>)
        /\ recomputes' = 0
        /\ warnings' = 0
        /\ UNCHANGED <<ctl, joint, hist, sim>>

DoUpdate ==
    /\ arm' = ArmUpdate(arm)
    /\ call' = [name |-> "update"]
    /\ ret' = Returns(<< >>)
    /\ recomputes' = UpdateRecomputes(arm)
    /\ warnings' = UpdateWarnings(arm)
    /\ UNCHANGED <<ctl, joint, hist, sim>>

\* DHArmModel::jacobian
DoJacobian ==
    /\ arm' = ArmUpdate(arm)
    /\ call' = [name |-> "jacobian"]
    /\ ret' = IF arm'.jacobian = << >> THEN Fault ELSE Returns(arm'.jacobian[1])
    /\ recomputes' = UpdateRecomputes(arm)
    /\ warnings' = UpdateWarnings(arm)
    /\ UNCHANGED <<ctl, joint, hist, sim>>

\* DHArmModel::inv_jacobian
DoInvJacobian ==
    /\ arm' = ArmUpdate(arm)
    /\ call' = [name |-> "inv_jacobian"]
    /\ ret' = IF arm'.inv_jacobian = << >> THEN Fault ELSE Returns(arm'.inv_jacobian[1])
    /\ recomputes' = UpdateRecomputes(arm)
    /\ warnings' = UpdateWarnings(arm)
    /\ UNCHANGED <<ctl, joint, hist, sim>>

NextArm ==
    \/ DoSetJointPositions
    \/ DoSetJointVelocities
    \/ DoUpdate
    \/ DoJacobian
    \/ DoInvJacobian

SpecArm == InitArm /\ [][NextArm]_vars

\* ------------------------------------------------------------------------
\* The DH table on its own: chain transforms and poses for every joint state
\* ------------------------------------------------------------------------

\* Row and frame indices tried: 0 .. F + 1.
Indices == 0..(Len(arm.dh_table) + 1)

DoTransformationMatrixJI ==
    \E j \in Indices, i \in Indices :
        /\ call' = [name |-> "transformation_matrix_j_i", j |-> j, i |-> i]
        /\ ret' = TransformationMatrixJI(arm.dh_table, j, i, arm.joints)
        /\ UNCHANGED <<arm, ctl, joint, recomputes, warnings, hist, sim>>

DoPoseBetweenJI ==
    \E j \in Indices, i \in Indices :
        /\ call' = [name |-> "pose_between_j_i", j |-> j, i |-> i]
        /\ ret' = PoseBetweenJI(arm.dh_table, j, i, arm.joints)
        /\ UNCHANGED <<arm, ctl, joint, recomputes, warnings, hist, sim>>

DoFramePose ==
    \E k \in Indices :
        /\ call' = [name |-> "frame_pose", frame_index |-> k]
        /\ ret' = FramePose(arm, k)
        /\ UNCHANGED <<arm, ctl, joint, recomputes, warnings, hist, sim>>

DoFramePoses ==
    /\ call' = [name |-> "frame_poses"]
    /\ ret' = Returns(FramePoses(arm))
    /\ UNCHANGED <<arm, ctl, joint, recomputes, warnings, hist, sim>>

NextDH ==
    \/ DoSetJointPositions
    \/ DoTransformationMatrixJI
    \/ DoPoseBetweenJI
    \/ DoFramePose
    \/ DoFramePoses

SpecDH == InitArm /\ [][NextDH]_vars

\* ------------------------------------------------------------------------
\* The control loop: TaskSpacePidController::compute on the arm RR
\* ------------------------------------------------------------------------

\* Number of compute calls of a run.
MaxCycles == 3

\* Commands [vx, vy, vz, wx, wy, wz] (linear in units of vel_eps, angular
\* in 1e-4 degree/s): no command; both norms exactly at vel_eps after the
\* conversion to radians; linear above vel_eps; angular above vel_eps.
CmdZero == << 0, 0, 0, 0, 0, 0 >>

CmdAtEps == << 1, 0, 0, 0, 58, 0 >>

CmdLinear == << 1, 0, 1, 0, 0, 0 >>

CmdAngular == << 0, 0, 0, 58, 0, 58 >>

Cmds == {CmdZero, CmdAtEps, CmdLinear, CmdAngular}

MotorPos == {<< 0, 0 >>, << 900000, 900000 >>}

MotorVels == {<< 0, 600000 >>}

Dts == {1, 2}

Init ==
    /\ arm = ArmRR
    /\ ctl = ControllerNew(<< 1, 2, 1, 1, 2, 1 >>, << 1, 1, 1, 1, 1, 1 >>,
                           << 2, 1, 1, 2, 1, 1 >>)
    /\ joint = FreshJoint
    /\ call = NoCall
    /\ ret = Returns(<< >>)
    /\ recomputes = 0
    /\ warnings = 0
    /\ hist = NoHist
    /\ sim = NoSim

\* The command xd_des_arr asks for motion: its linear part, or its angular
\* part in rad/s, is longer than vel_eps.
ActiveCommand(xd_des_arr) ==
    \/ xd_des_arr[1] * xd_des_arr[1] + xd_des_arr[2] * xd_des_arr[2]
         + xd_des_arr[3] * xd_des_arr[3] > VelEps * VelEps
    \/ ToRadians(xd_des_arr[4]) * ToRadians(xd_des_arr[4])
         + ToRadians(xd_des_arr[5]) * ToRadians(xd_des_arr[5])
         + ToRadians(xd_des_arr[6]) * ToRadians(xd_des_arr[6]) > VelEps * VelEps

\* The reference rotation of controller c integrated over one tracking cycle
\* of this call, before any re-orthonormalisation.
IntegratedReference(c, a, xd_des_arr, motor_pos, dt) ==
    LET r_curr == FramePose(ArmSetJointPositions(a, motor_pos), Len(a.dh_table) - 1).val.rotation
        w_ee   == << ToRadians(xd_des_arr[4]), ToRadians(xd_des_arr[5]),
                     ToRadians(xd_des_arr[6]) >>
    IN  IntegrateOrientation(c.r_ref, MatVec(r_curr, w_ee), dt)

\* The numbers of this call are exact in the model: a re-orthonormalisation,
\* if this call makes one, is of a matrix whose U * V^T has whole entries.
ExactCall(c, a, xd_des_arr, motor_pos, dt) ==
    (ActiveCommand(xd_des_arr) /\ (c.cycle_count + 1) % OrthonormInterval = 0)
        => SvdExact(IntegratedReference(c, a, xd_des_arr, motor_pos, dt))

\* One call of compute with the given arguments.
ComputeStep(xd_des_arr, motor_pos, motor_vels, dt) ==
    /\ ExactCall(ctl, arm, xd_des_arr, motor_pos, dt)
    /\ \E r \in {Compute(ctl, arm, xd_des_arr, motor_pos, motor_vels, dt)} :
        /\ ctl' = r.ctl
        /\ arm' = r.arm
        /\ ret' = Returns(r.ret)
        /\ recomputes' = r.recomputes
        /\ warnings' = r.warnings
        /\ call' = [name |-> "compute", xd_des_arr |-> xd_des_arr,
                    motor_pos |-> motor_pos, motor_vels |-> motor_vels, dt |-> dt,
                    u_task |-> r.u_task]
        /\ hist' = LET error == TaskError(r.ctl.x_ref, r.ctl.r_ref,
                                         FramePose(r.arm, Len(r.arm.dh_table) - 1).val)
                   IN  [cycles   |-> hist.cycles + 1,
                        tracking |-> hist.tracking
                                       + (IF ActiveCommand(xd_des_arr) THEN 1 ELSE 0),
                        released |-> ~ActiveCommand(xd_des_arr),
                        sum_error_dt |-> VecAdd(hist.sum_error_dt, VecScale(error, dt)),
                        last_error   |-> error]
        /\ UNCHANGED <<joint, sim>>

DoCompute ==
    /\ hist.cycles < MaxCycles
    /\ \E xd_des_arr \in Cmds, motor_pos \in MotorPos, motor_vels \in MotorVels, dt \in Dts :
          ComputeStep(xd_des_arr, motor_pos, motor_vels, dt)

Next == DoCompute

Spec == Init /\ [][Next]_vars

\* ------------------------------------------------------------------------
\* The control loop with the arm's queries called between the cycles
\* ------------------------------------------------------------------------

\* Number of compute calls of a run with queries.
MaxCyclesCache == 2

DoComputeCache ==
    /\ hist.cycles < MaxCyclesCache
    /\ \E xd_des_arr \in Cmds, motor_pos \in MotorPos, motor_vels \in MotorVels :
          ComputeStep(xd_des_arr, motor_pos, motor_vels, 1)

NextCache ==
    \/ DoComputeCache
    \/ DoUpdate
    \/ DoJacobian
    \/ DoInvJacobian

SpecCache == Init /\ [][NextCache]_vars

\* ------------------------------------------------------------------------
\* The control loop over more than orthonorm_interval cycles
\* ------------------------------------------------------------------------

\* Number of compute calls of a long run.
MaxCyclesLong == 53

\* Linear motion with an angular rate of exactly vel_eps about one axis: a
\* tracking command whose w * dt is one radian.
CmdTurn == << 1, 0, 1, 58, 0, 0 >>

\* The calls (counted from 1) at which a long run may release the joystick,
\* and those at which it may turn; at every other call it moves linearly.
HoldSlots == {1, 30, 50, 51}

TurnSlots == {2, 3, 48, 49, 52}

CmdsAt(n) == (IF n \in HoldSlots THEN {CmdZero} ELSE {})
                 \cup (IF n \in TurnSlots THEN {CmdTurn} ELSE {})
                 \cup {CmdLinear}

InitLong ==
    /\ arm = ArmRR
    /\ ctl = ControllerNew(<< 1, 1, 1, 1, 1, 1 >>, Zeros(6), Zeros(6))
    /\ joint = FreshJoint
    /\ call = NoCall
    /\ ret = Returns(<< >>)
    /\ recomputes = 0
    /\ warnings = 0
    /\ hist = NoHist
    /\ sim = NoSim

DoComputeLong ==
    /\ hist.cycles < MaxCyclesLong
    /\ \E xd_des_arr \in CmdsAt(hist.cycles + 1) :
          ComputeStep(xd_des_arr, << 0, 0 >>, << 0, 0 >>, 1)

NextLong == DoComputeLong

SpecLong == InitLong /\ [][NextLong]_vars

\* ------------------------------------------------------------------------
\* A Joint on its own
\* ------------------------------------------------------------------------

JointTypes == {"Revolute", "Prismatic"}

\* Limits handed to Joint::new: none, or a value.
LimitInputs == {<< >>, << -180 >>, << -90 >>, << 90 >>, << 180 >>}

JointInputs == {-270, -100, 0, 100, 270}

InitJoint ==
    /\ arm = ArmRR
    /\ ctl = FreshController
    /\ \E joint_type \in JointTypes, limit_min \in LimitInputs, limit_max \in LimitInputs :
          joint = JointNew(joint_type, limit_min, limit_max)
    /\ call = NoCall
    /\ ret = Returns(<< >>)
    /\ recomputes = 0
    /\ warnings = 0
    /\ hist = NoHist
    /\ sim = NoSim

DoJointSetPosition ==
    \E pos \in JointInputs :
        /\ joint' = SetPosition(joint, pos)
        /\ call' = [name |-> "set_position", pos |-> pos]
        /\ UNCHANGED <<arm, ctl, ret, recomputes, warnings, hist, sim>>

DoJointSetVelocity ==
    \E vel \in JointInputs :
        /\ joint' = SetVelocity(joint, vel)
        /\ call' = [name |-> "set_velocity", vel |-> vel]
        /\ UNCHANGED <<arm, ctl, ret, recomputes, warnings, hist, sim>>

NextJoint ==
    \/ DoJointSetPosition
    \/ DoJointSetVelocity

SpecJoint == InitJoint /\ [][NextJoint]_vars

\* ------------------------------------------------------------------------
\* A DH row on its own: DHRow::get_row_trans_mat for every joint state
\* ------------------------------------------------------------------------

\* A revolute and a prismatic joint with a fixed row between them that
\* carries the index of the prismatic joint.
RowsFx == << DHRowNew(1, 900000, 1, 0, FALSE, << 1 >>),
             DHRowNew(2, 0, 3, 900000, TRUE, << 0 >>),
             DHRowNew(0, -900000, 1, 900000, FALSE, << 0 >>) >>

JointsFx == << JointNew("Prismatic", << >>, << >>),
               JointNew("Revolute", << >>, << >>) >>

ArmFx == ArmNew(RowsFx, JointsFx, << Whole(1) >>)

InitRow ==
    /\ arm \in {ArmRR, ArmRP, ArmFx}
    /\ ctl = FreshController
    /\ joint = FreshJoint
    /\ call = NoCall
    /\ ret = Returns(<< >>)
    /\ recomputes = 0
    /\ warnings = 0
    /\ hist = NoHist
    /\ sim = NoSim

\* rows[row_index].get_row_trans_mat(joints), row_index counted from 0.
DoGetRowTransMat ==
    \E row_index \in 0..(Len(arm.dh_table) - 1) :
        /\ call' = [name |-> "get_row_trans_mat", row_index |-> row_index]
        /\ ret' = Returns(GetRowTransMat(arm.dh_table[row_index + 1], arm.joints))
        /\ UNCHANGED <<arm, ctl, joint, recomputes, warnings, hist, sim>>

NextRow ==
    \/ DoSetJointPositions
    \/ DoSetJointVelocities
    \/ DoGetRowTransMat

SpecRow == InitRow /\ [][NextRow]_vars

\* ------------------------------------------------------------------------
\* The Jacobian of the three arms for every joint state
\* ------------------------------------------------------------------------

NextJac ==
    \/ DoSetJointPositions
    \/ DoSetJointVelocities
    \/ DoJacobian

SpecJac == InitRow /\ [][NextJac]_vars

\* ------------------------------------------------------------------------
\* The pseudo-inverse for joint counts below, at and above 6
\* ------------------------------------------------------------------------

\* One prismatic joint; the arm is built with damping None.
ArmP1 ==
    ArmNew(<< DHRowNew(0, 0, 1, 0, FALSE, << 0 >>) >>,
           << JointNew("Prismatic", << >>, << >>) >>, << >>)

\* Two prismatic joints along the same axis, without damping.
ArmPP ==
    ArmNew(<< DHRowNew(0, 0, 1, 0, FALSE, << 0 >>), DHRowNew(0, 0, 1, 0, FALSE, << 1 >>) >>,
           << JointNew("Prismatic", << >>, << >>), JointNew("Prismatic", << >>, << >>) >>,
           << Whole(0) >>)

\* Seven revolute joints and a fixed end-effector offset, without damping.
RowsR7 == << DHRowNew(0, 900000, 0, 900000, FALSE, << 0 >>),
             DHRowNew(1, 900000, 1, -900000, FALSE, << 1 >>),
             DHRowNew(0, 900000, 0, -900000, FALSE, << 2 >>),
             DHRowNew(0, 900000, 0, 900000, FALSE, << 3 >>),
             DHRowNew(1, 900000, 1, 0, FALSE, << 4 >>),
             DHRowNew(0, 900000, 1, -900000, FALSE, << 5 >>),
             DHRowNew(1, 900000, 0, 0, FALSE, << 6 >>),
             DHRowNew(0, 0, 1, 0, TRUE, << >>) >>

ArmR7 ==
    ArmNew(RowsR7, Tuple([k \in 1..7 |-> JointNew("Revolute", << >>, << >>)]), << Whole(0) >>)

\* The first six of these joints and the end-effector offset, damped.
ArmR6 ==
    ArmNew(SubSeq(RowsR7, 1, 6) \o << RowsR7[8] >>,
           Tuple([k \in 1..6 |-> JointNew("Revolute", << >>, << >>)]), << Whole(1) >>)

\* Six prismatic joints, without damping.
RowsP6 == << DHRowNew(0, 900000, 1, 0, FALSE, << 0 >>),
             DHRowNew(0, 900000, 1, 900000, FALSE, << 1 >>),
             DHRowNew(0, 0, 1, 0, FALSE, << 2 >>),
             DHRowNew(0, 900000, 1, 0, FALSE, << 3 >>),
             DHRowNew(0, 900000, 1, 900000, FALSE, << 4 >>),
             DHRowNew(0, 0, 1, 0, FALSE, << 5 >>) >>

ArmP6 ==
    ArmNew(RowsP6, Tuple([k \in 1..6 |-> JointNew("Prismatic", << >>, << >>)]), << Whole(0) >>)

\* Positions handed to set_joint_positions: every combination for an arm of
\* one or two joints; for a longer one the same value for every joint, or 0
\* and another value in turn.
PosInputsPinv(a) ==
    IF Len(a.joints) <= 2 THEN PosInputs(a)
    ELSE {Tuple([k \in 1..Len(a.joints) |-> v]) : v \in PosValues(a.joints[1])}
         \cup {Tuple([k \in 1..Len(a.joints) |-> IF k % 2 = 1 THEN 0 ELSE v]) :
                  v \in PosValues(a.joints[1]) \ {0}}

\* try_inverse of m is exact in the model: up to 4 x 4 it tests the
\* determinant; above it eliminates, and a singular m is found singular for
\* certain when it has a zero column.
ExactInverse(m) ==
    \/ NRows(m) <= 4
    \/ Det(m) # 0
    \/ \E j \in 1..NCols(m) : \A i \in 1..NRows(m) : m[i][j] = 0

\* The pseudo-inverse of arm a with damping lambda_val is exact in the model.
ExactPinv(a, lambda_val) ==
    /\ lambda_val.den # 1 => Len(a.joints) = 1
    /\ ExactInverse(InverseArgument(ComputeJacobian(a.dh_table, a.joints), lambda_val))

InitPinv ==
    /\ arm \in {ArmP1, ArmPP, ArmRP, ArmRR, ArmR6, ArmP6, ArmR7}
    /\ ctl = FreshController
    /\ joint = FreshJoint
    /\ call = NoCall
    /\ ret = Returns(<< >>)
    /\ recomputes = 0
    /\ warnings = 0
    /\ hist = NoHist
    /\ sim = NoSim

DoSetJointPositionsPinv ==
    \E positions \in PosInputsPinv(arm) :
        /\ arm' = ArmSetJointPositions(arm, positions)
        /\ call' = [name |-> "set_joint_positions", positions |-> positions]
        /\ ret' = Returns(<< >>)
        /\ recomputes' = 0
        /\ warnings' = 0
        /\ UNCHANGED <<ctl, joint, hist, sim>>

DoUpdatePinv == ExactPinv(arm, arm.damping) /\ DoUpdate

DoInvJacobianPinv == ExactPinv(arm, arm.damping) /\ DoInvJacobian

\* dh_table.damped_moore_penrose_pseudo_inverse(joints, maybe_j, lambda)
DoPseudoInverse ==
    \E maybe_j \in {<< >>, << ComputeJacobian(arm.dh_table, arm.joints) >>},
       lambda \in {<< >>, << Whole(0) >>, << Whole(1) >>} :
        /\ ExactPinv(arm, IF lambda = << >> THEN DefaultLambda ELSE lambda[1])
        /\ \E r \in {PseudoInverseCall(arm.dh_table, arm.joints, maybe_j, lambda)} :
              /\ call' = [name |-> "damped_moore_penrose_pseudo_inverse",
                          maybe_j |-> maybe_j, lambda |-> lambda]
              /\ ret' = Returns(r.val)
              /\ warnings' = IF r.warned THEN 1 ELSE 0
              /\ UNCHANGED <<arm, ctl, joint, recomputes, hist, sim>>

NextPinv ==
    \/ DoSetJointPositionsPinv
    \/ DoUpdatePinv
    \/ DoInvJacobianPinv
    \/ DoPseudoInverse

SpecPinv == InitPinv /\ [][NextPinv]_vars

\* ------------------------------------------------------------------------
\* Building a table and an arm from arbitrary rows
\* ------------------------------------------------------------------------

\* DHTable::new(rows): the rows are stored as they are.
DHTableNew(rows) == Returns(rows)

\* get_row_trans_mat(joints) of a non-fixed row panics when joint_index is
\* None (expect) or not below the number of joints (index out of bounds).
RowFaults(row, joints) ==
    /\ ~row.fixed_frame
    /\ \/ row.joint_index = << >>
       \/ row.joint_index[1] >= Len(joints)

\* compute_jacobian(joints) with its panics: all_poses evaluates every row,
\* and poses[F - 1] needs a row.
ComputeJacobianCall(rows, joints) ==
    IF \E i \in 1..Len(rows) : RowFaults(rows[i], joints) THEN Fault
    ELSE IF Len(rows) = 0 THEN Fault
    ELSE Returns(ComputeJacobian(rows, joints))

\* Tables of up to two rows: fixed or not, with an index, without one, or
\* with one that no arm of one or two joints has.
TableInputs ==
    LET row_inputs == { DHRowNew(0, 0, 1, 0, TRUE, << >>),
                        DHRowNew(1, 0, 0, 0, FALSE, << 0 >>),
                        DHRowNew(1, 0, 0, 0, FALSE, << >>),
                        DHRowNew(1, 0, 0, 0, FALSE, << 2 >>) }
    IN  {<< >>} \cup {<< r >> : r \in row_inputs}
                \cup {<< r, q >> : r \in row_inputs, q \in row_inputs}

\* DHTable::<F, J>::new(rows), then DHArmModel::new(table, joints, None)
DoTableNew ==
    \E rows \in TableInputs, nj \in 1..2 :
        \E r \in {DHTableNew(rows)} :
            /\ call' = [name |-> "DHTable::new", rows |-> rows]
            /\ ret' = r
            /\ arm' = IF r.panic THEN arm
                      ELSE ArmNew(r.val, Tuple([k \in 1..nj |-> JointNew("Revolute", << >>, << >>)]),
                                  << >>)
            /\ recomputes' = 0
            /\ warnings' = 0
            /\ UNCHANGED <<ctl, joint, hist, sim>>

\* dh_table.compute_jacobian(joints)
DoComputeJacobianCall ==
    /\ call' = [name |-> "compute_jacobian"]
    /\ ret' = ComputeJacobianCall(arm.dh_table, arm.joints)
    /\ recomputes' = 0
    /\ warnings' = 0
    /\ UNCHANGED <<arm, ctl, joint, hist, sim>>

NextTable ==
    \/ DoTableNew
    \/ DoSetJointPositions
    \/ DoComputeJacobianCall

SpecTable == InitArm /\ [][NextTable]_vars

\* ------------------------------------------------------------------------
\* UrtIkSolver (inverse_kinematics_solvers.rs) and the arm of main.rs
\* ------------------------------------------------------------------------

\* f64::atan2(y, x) where one argument is zero, in the fixed-point unit of
\* angles. A half turn stands for pi and -pi (the sign of a zero y decides).
Atan2(y, x) ==
    IF y = 0 THEN (IF x >= 0 THEN 0 ELSE 31416)
    ELSE IF y > 0 THEN 15708 ELSE -15708

\* Result<[f64; 6], String>
IkOk(thetas) == [ok |-> TRUE, thetas |-> thetas]

IkErr(msg) == [ok |-> FALSE, err |-> msg]

\* Step 2: the wrist centre.
WristCentre(x, y, z, r, link_lengths) ==
    LET d == link_lengths[4] + link_lengths[5]
    IN  << x - d * r[1][3], y - d * r[2][3], z - d * r[3][3] >>

\* Steps 4 and 5: cos_theta3 as numerator / denom. With denom = 0 the
\* quotient is an infinity, or NaN when the numerator is 0 too.
CosTheta3(w, link_lengths) ==
    [ num |-> w[1] * w[1] + w[2] * w[2]
                + (w[3] - link_lengths[1]) * (w[3] - link_lengths[1])
                - link_lengths[2] * link_lengths[2] - link_lengths[3] * link_lengths[3],
      den |-> 2 * link_lengths[2] * link_lengths[3] ]

CosIsNaN(c) == c.den = 0 /\ c.num = 0

OutOfWorkspaceNever(c) == c.den # c.den

\* cos_theta3.abs() > 1.0
OutOfWorkspace(c) == IF c.den = 0 THEN c.num # 0 ELSE Abs(c.num) > Abs(c.den)

\* Steps 3 to 9 without the checks: the six angles, and which of them are
\* NaN (their entry is 0).
IkAngles(w, r, link_lengths) ==
    LET c      == CosTheta3(w, link_lengths)
        l2     == link_lengths[2]
        l3     == link_lengths[3]
        theta1 == Atan2(w[2], w[1])
        r_val  == Isqrt(w[1] * w[1] + w[2] * w[2])
        s      == w[3] - link_lengths[1]
        cos3   == c.num \div c.den
        sin3   == Isqrt(1 - cos3 * cos3)
        theta3 == IF CosIsNaN(c) THEN 0 ELSE Atan2(sin3, cos3)
        theta2 == IF CosIsNaN(c) THEN 0
                  ELSE Atan2(s, r_val) - Atan2(l3 * sin3, l2 + l3 * cos3)
        t23    == theta2 + theta3
        c1     == Cos(theta1)
        s1     == Sin(theta1)
        c23    == Cos(t23)
        s23    == Sin(t23)
        theta4 == Atan2(r[2][3] * c1 - r[1][3] * s1,
                        r[1][3] * c23 * c1 - r[3][3] * s23 + r[2][3] * c23 * s1)
        expr   == -r[3][3] * c23 - r[1][3] * s23 * c1 - r[2][3] * s23 * s1
        theta5 == IF expr * expr > 1 THEN 0
                  ELSE Atan2(Isqrt(1 - expr * expr), -expr)
        theta6 == Atan2(-r[3][2] * c23 - r[1][2] * s23 * c1 - r[2][2] * s23 * s1,
                        -r[3][1] * c23 - r[1][1] * s23 * c1 - r[2][1] * s23 * s1)
    IN  [ thetas |-> << theta1, theta2, theta3, theta4, theta5, theta6 >>,
          nan    |-> (IF CosIsNaN(c) THEN {2, 3} ELSE {})
                        \cup (IF expr * expr > 1 THEN {5} ELSE {}) ]

SolveIkStepsNoFinalCheck(x, y, z, r, link_lengths) ==
    Bind(WristCentre(x, y, z, r, link_lengths), LAMBDA w :
        IF OutOfWorkspace(CosTheta3(w, link_lengths))
        THEN IkErr("Target out of workspace: theta3 complex")
        ELSE Bind(IkAngles(w, r, link_lengths), LAMBDA angles :
                IF angles.nan \cap 1..3 # {}
                THEN IkErr("Target out of workspace: base joints complex")
                ELSE IkOk(angles.thetas)))

\* A solver that takes a cosine with a zero denominator for a straight elbow
\* and answers with the zero configuration.
SolveIkStepsZeroDenominator(x, y, z, r, link_lengths) ==
    Bind(WristCentre(x, y, z, r, link_lengths), LAMBDA w :
        IF CosTheta3(w, link_lengths).den = 0
        THEN IkOk(Zeros(6))
        ELSE IF OutOfWorkspace(CosTheta3(w, link_lengths))
        THEN IkErr("Target out of workspace: theta3 complex")
        ELSE Bind(IkAngles(w, r, link_lengths), LAMBDA angles :
                IF angles.nan \cap 1..3 # {}
                THEN IkErr("Target out of workspace: base joints complex")
                ELSE IF angles.nan # {}
                THEN IkErr("One or more joint angles are invalid")
                ELSE IkOk(angles.thetas)))

\* solve_ik after the check of the number of link lengths.
SolveIkSteps(x, y, z, r, link_lengths) ==
    Bind(WristCentre(x, y, z, r, link_lengths), LAMBDA w :
        IF OutOfWorkspace(CosTheta3(w, link_lengths))
        THEN IkErr("Target out of workspace: theta3 complex")
        ELSE Bind(IkAngles(w, r, link_lengths), LAMBDA angles :
                IF angles.nan \cap 1..3 # {}
                THEN IkErr("Target out of workspace: base joints complex")
                ELSE IF angles.nan # {}
                THEN IkErr("One or more joint angles are invalid")
                ELSE IkOk(angles.thetas)))

SolveIkAnyLongSlice(x, y, z, r, link_lengths) ==
    IF Len(link_lengths) < 5
    THEN IkErr("URT IK Solver requires 5 link parameters")
    ELSE SolveIkSteps(x, y, z, r, link_lengths)

SolveIk(x, y, z, r, link_lengths) ==
    IF Len(link_lengths) # 5
    THEN IkErr("URT IK Solver requires 5 link parameters")
    ELSE SolveIkSteps(x, y, z, r, link_lengths)

\* solve_ik on these arguments is exact in the model: every atan2 has a zero
\* argument, the wrist centre lies on an axis of the base plane, and
\* cos_theta3, when within [-1, 1], is 1 or -1.
ExactIk(x, y, z, r, link_lengths) ==
    Len(link_lengths) = 5 =>
        Bind(WristCentre(x, y, z, r, link_lengths), LAMBDA w :
            Bind(CosTheta3(w, link_lengths), LAMBDA c :
                /\ w[1] = 0 \/ w[2] = 0
                /\ \A j \in 1..3 : Cardinality({i \in 1..3 : r[i][j] # 0}) = 1
                /\ (c.den # 0 /\ Abs(c.num) <= Abs(c.den)) =>
                      /\ Abs(c.num) = Abs(c.den)
                      /\ (w[1] = 0 /\ w[2] = 0) \/ w[3] = link_lengths[1]))

\* The arm of main.rs with its ik_link_parameters.
ArmUrt ==
    [ dh_table     |-> << DHRowNew(0, 0, 9, 0, FALSE, << 0 >>),
                          DHRowNew(0, -900000, 0, -900000, FALSE, << 1 >>),
                          DHRowNew(34, 0, 0, 900000, FALSE, << 2 >>),
                          DHRowNew(0, 900000, 32, 0, FALSE, << 3 >>),
                          DHRowNew(0, -900000, 0, 0, FALSE, << 4 >>),
                          DHRowNew(0, 900000, 15, 0, FALSE, << 5 >>),
                          DHRowNew(0, 0, 15, 0, TRUE, << >>) >>,
      joints       |-> Tuple([k \in 1..6 |-> JointNew("Revolute", << >>, << >>)]),
      jacobian     |-> << >>,
      inv_jacobian |-> << >>,
      dirty        |-> TRUE,
      damping      |-> DefaultLambda,
      ik_link_parameters |-> << 9, 34, 0, 32, 15 >> ]

\* The pose of the last frame of arm a.
EndEffectorPose(a) == AllPoses(a.dh_table, a.joints)[Len(a.dh_table)]

\* Target poses: the pose of the arm, and points on the axes with rotations
\* about the axes and one matrix that is not a rotation.
TargetInputs(a) ==
    {EndEffectorPose(a)} \cup
    { [position |-> p, rotation |-> rot] :
        p \in {<< 0, 0, 3 >>, << 0, 0, 2 >>, << 3, 0, 0 >>, << 0, 2, 0 >>, << 0, 0, 5 >>,
               << 0, 0, 75 >>},
        rot \in { Identity(3),
                  << << 0, 0, 1 >>, << 0, 1, 0 >>, << -1, 0, 0 >> >>,
                  << << 1, 0, 0 >>, << 0, 0, -1 >>, << 0, 1, 0 >> >>,
                  << << 2, 0, 0 >>, << 0, 2, 0 >>, << 0, 0, 2 >> >> } }

\* Link lengths handed to solve_ik: slices of 0, 4, 5 and 6 values, with and
\* without a zero l2 or l3, and the lengths the table of the arm is built on.
LinkInputs(a) ==
    { a.ik_link_parameters, << >>, << 0, 1, 1, 1 >>, << 0, 1, 1, 1, 0, 0 >>,
      << 0, 1, 1, 1, 0 >>, << 0, 1, 1, 0, 0 >>, << 0, 2, 0, 0, 0 >>, << 1, 0, 1, 1, 1 >>,
      << 9, 34, 32, 15, 15 >> }

InitIk ==
    /\ arm = ArmUrt
    /\ ctl = FreshController
    /\ joint = FreshJoint
    /\ call = NoCall
    /\ ret = Returns(<< >>)
    /\ recomputes = 0
    /\ warnings = 0
    /\ hist = NoHist
    /\ sim = NoSim

\* UrtIkSolver.solve_ik(x, y, z, r, link_lengths)
DoSolveIk ==
    \E target \in TargetInputs(arm), link_lengths \in LinkInputs(arm) :
        /\ ExactIk(target.position[1], target.position[2], target.position[3],
                   target.rotation, link_lengths)
        /\ call' = [name |-> "solve_ik", target |-> target, link_lengths |-> link_lengths]
        /\ ret' = Returns(SolveIk(target.position[1], target.position[2],
                                  target.position[3], target.rotation, link_lengths))
        /\ recomputes' = 0
        /\ warnings' = 0
        /\ UNCHANGED <<arm, ctl, joint, hist, sim>>

\* arm.solve_ik_from_pose(target_pose)
DoSolveIkFromPose ==
    \E target \in TargetInputs(arm) :
        /\ ExactIk(target.position[1], target.position[2], target.position[3],
                   target.rotation, arm.ik_link_parameters)
        /\ call' = [name |-> "solve_ik_from_pose", target |-> target,
                    link_lengths |-> arm.ik_link_parameters]
        /\ ret' = Returns(SolveIk(target.position[1], target.position[2],
                                  target.position[3], target.rotation,
                                  arm.ik_link_parameters))
        /\ recomputes' = 0
        /\ warnings' = 0
        /\ UNCHANGED <<arm, ctl, joint, hist, sim>>

NextIk ==
    \/ DoSetJointPositionsPinv
    \/ DoSolveIk
    \/ DoSolveIkFromPose

SpecIk == InitIk /\ [][NextIk]_vars

\* ------------------------------------------------------------------------
\* Forward kinematics of the arm of main.rs and of chains of pure offsets
\* ------------------------------------------------------------------------

\* A chain whose rows have alpha = 0 and theta = 0: a fixed offset, a
\* prismatic joint, a revolute joint and a fixed end offset.
ArmOffsets ==
    ArmNew(<< DHRowNew(2, 0, 1, 0, TRUE, << >>),
              DHRowNew(1, 0, 3, 0, FALSE, << 0 >>),
              DHRowNew(3, 0, 0, 0, FALSE, << 1 >>),
              DHRowNew(0, 0, 2, 0, TRUE, << >>) >>,
           << JointNew("Prismatic", << >>, << >>), JointNew("Revolute", << >>, << >>) >>,
           << >>)

InitFk ==
    /\ arm \in {ArmUrt, ArmOffsets, ArmPP, ArmRR}
    /\ ctl = FreshController
    /\ joint = FreshJoint
    /\ call = NoCall
    /\ ret = Returns(<< >>)
    /\ recomputes = 0
    /\ warnings = 0
    /\ hist = NoHist
    /\ sim = NoSim

NextFk ==
    \/ DoSetJointPositionsPinv
    \/ DoFramePoses
    \/ DoFramePose
    \/ DoPoseBetweenJI

SpecFk == InitFk /\ [][NextFk]_vars

\* ------------------------------------------------------------------------
\* ArmSim (arm_sim.rs): the simulator on the cached arm (arm.rs)
\* ------------------------------------------------------------------------

\* ArmSim::new(arm, dt). arm.set_joint_variables hands the joint variables
\* to the joints and marks the cache dirty, as set_joint_positions does.
ArmSimNew(a, dt) ==
    [ arm |-> ArmSetJointPositions(a, Zeros(Len(a.joints))),
      sim |-> [task_vel   |-> Zeros(6),
               joint_vars |-> Zeros(Len(a.joints)),
               dt         |-> dt] ]

\* ArmSim::step on the arm a and the simulator s: the arm and the simulator
\* after it, its result, the number of Jacobian recomputations it caused,
\* and whether inv_j * task_vel * dt is a whole number on every joint.
SimStep(a, s) ==
    Bind(ArmUpdate(a), LAMBDA a1 :
        Bind(a1.inv_jacobian[1], LAMBDA inv_j :
            IF NRows(inv_j.num) = 0 \/ NCols(inv_j.num) # 6
            THEN [arm |-> a1, sim |-> s, ok |-> FALSE,
                  recomputes |-> UpdateRecomputes(a), exact |-> TRUE]
            ELSE Bind(VecScale(MatVec(inv_j.num, s.task_vel), s.dt), LAMBDA moved :
                 Bind(Tuple([i \in 1..Len(s.joint_vars) |->
                                s.joint_vars[i] + moved[i] \div inv_j.den]),
                      LAMBDA joint_vars :
                   [arm |-> ArmUpdate(ArmSetJointPositions(a1, joint_vars)),
                    sim |-> [s EXCEPT !.joint_vars = joint_vars],
                    ok |-> TRUE,
                    recomputes |-> UpdateRecomputes(a) + 1,
                    exact |-> \A i \in 1..Len(moved) : moved[i] % inv_j.den = 0]))))

\* ArmSim::reset
SimReset(a, s) ==
    [ arm |-> ArmUpdate(ArmSetJointPositions(a, Zeros(Len(a.joints)))),
      sim |-> [s EXCEPT !.task_vel = Zeros(6), !.joint_vars = Zeros(Len(a.joints))],
      recomputes |-> 1 ]

\* One iteration of the loop of ArmSim::run that does not quit: reset on
\* space, the keys added to task_vel, the physics step, the poses drawn.
RunIteration(a, s, space, task_keys) ==
    Bind(IF space THEN SimReset(a, s) ELSE [arm |-> a, sim |-> s, recomputes |-> 0],
         LAMBDA r0 :
    Bind(SimStep(r0.arm, [r0.sim EXCEPT !.task_vel = VecAdd(r0.sim.task_vel, task_keys)]),
         LAMBDA r1 :
    Bind(SimStep(r1.arm, r1.sim), LAMBDA r2 :
        [ arm |-> r2.arm, sim |-> r2.sim,
          steps |-> << r1.ok, r2.ok >>,
          poses |-> FramePoses(r2.arm),
          recomputes |-> r0.recomputes + r1.recomputes + r2.recomputes,
          exact |-> r1.exact /\ r2.exact ])))

\* Two prismatic joints at a right angle and a fixed end offset, without
\* damping: the pseudo-inverse is the transpose of the Jacobian.
ArmGantry ==
    ArmNew(<< DHRowNew(0, 0, 1, 0, FALSE, << 0 >>),
              DHRowNew(0, 900000, 1, 0, FALSE, << 1 >>),
              DHRowNew(0, 0, 1, 0, TRUE, << >>) >>,
           << JointNew("Prismatic", << >>, << >>), JointNew("Prismatic", << >>, << >>) >>,
           << Whole(0) >>)

MaxIterations == 3

\* The keys held in one iteration, as the sum of what they add to task_vel.
TaskKeys ==
    { Zeros(6), << 0, 0, 1, 0, 0, 0 >>, << 0, 0, -1, 0, 0, 0 >>, << 0, 1, 0, 0, 0, 0 >>,
      << 1, 0, 0, 0, 0, 1 >> }

InitSim ==
    /\ \E dt \in {1, 2} :
          /\ arm = ArmSimNew(ArmGantry, dt).arm
          /\ sim = << ArmSimNew(ArmGantry, dt).sim >>
    /\ ctl = FreshController
    /\ joint = FreshJoint
    /\ call = NoCall
    /\ ret = Returns(<< >>)
    /\ recomputes = 0
    /\ warnings = 0
    /\ hist = NoHist

\* One iteration of the loop of ArmSim::run
DoRunIteration ==
    /\ hist.cycles < MaxIterations
    /\ \E space \in BOOLEAN, task_keys \in TaskKeys :
        \E r \in {RunIteration(arm, sim[1], space, task_keys)} :
            /\ r.exact
            /\ arm' = r.arm
            /\ sim' = << r.sim >>
            /\ call' = [name |-> "run_iteration", space |-> space, task_keys |-> task_keys,
                        steps |-> r.steps]
            /\ ret' = Returns(r.poses)
            /\ recomputes' = r.recomputes
            /\ warnings' = 0
            /\ hist' = [hist EXCEPT !.cycles = hist.cycles + 1]
            /\ UNCHANGED <<ctl, joint>>

NextSim == DoRunIteration

SpecSim == InitSim /\ [][NextSim]_vars

\* ------------------------------------------------------------------------
\* MatrixPid6 and TaskSpaceVelocityController (PIDcontrollers.rs)
\* ------------------------------------------------------------------------

\* Result<_, String>
Ok(v) == [ok |-> TRUE, val |-> v]

Err(msg) == [ok |-> FALSE, err |-> msg]

\* vec_to_vector6
VecToVector6(v) ==
    IF Len(v) # 6
    THEN Err("Expected Vec<f64> of length 6, got " \o ToString(Len(v)))
    ELSE Ok(v)

\* MatrixPid6::new
MatrixPid6New(kp, ki, kd) ==
    [ kp |-> kp, ki |-> ki, kd |-> kd,
      integral |-> Zeros(6), prev_error |-> Zeros(6) ]

\* MatrixPid6::reset
MatrixPid6Reset(pid) == [pid EXCEPT !.integral = Zeros(6), !.prev_error = Zeros(6)]

\* MatrixPid6::update: the PID after the call and the value returned.
MatrixPid6Update(pid, error, dt) ==
    LET integral   == VecAdd(pid.integral, VecScale(error, dt))
        derivative == Tuple([i \in 1..6 |-> Trunc(error[i] - pid.prev_error[i], dt)])
    IN  [ pid |-> [pid EXCEPT !.integral = integral, !.prev_error = error],
          out |-> VecAdd(VecAdd(MatVec(pid.kp, error), MatVec(pid.ki, integral)),
                         MatVec(pid.kd, derivative)) ]

\* arm.joint_velocities()
JointVelocities(a) == Tuple([k \in 1..Len(a.joints) |-> a.joints[k].velocity])

\* vector6_to_vec_f32: every component times dt, as an exact rational vector.
Vector6ToVecF32(q, dt) == Reduce([num |-> VecScale(q.num, dt), den |-> q.den])

\* A step that clears the PID state when the velocity vector has the wrong
\* length.
VelocityStepResetOnError(c, a, xdot_ref, dt) ==
    Bind(VecToVector6(JointVelocities(a)), LAMBDA qdot :
      IF ~qdot.ok THEN [ctl |-> [c EXCEPT !.pid = MatrixPid6Reset(c.pid)], arm |-> a, ret |-> qdot]
      ELSE
      Bind(ArmUpdate(a), LAMBDA a1 :
      Bind(a1.jacobian[1], LAMBDA j :
        IF NRows(j) # 6 \/ NCols(j) # 6
        THEN [ctl |-> c, arm |-> a1, ret |-> Err("Jacobian shape mismatch")]
        ELSE
        Bind(MatrixPid6Update(c.pid, VecSub(xdot_ref, MatVec(j, qdot.val)), dt), LAMBDA u :
        Bind(a1.inv_jacobian[1], LAMBDA inv_j :
          IF NRows(inv_j.num) # 6 \/ NCols(inv_j.num) # 6
          THEN [ctl |-> [c EXCEPT !.pid = u.pid], arm |-> a1,
                ret |-> Err("Inverse Jacobian shape mismatch")]
          ELSE [ctl |-> [c EXCEPT !.pid = u.pid], arm |-> a1,
                ret |-> Ok(Vector6ToVecF32([num |-> MatVec(inv_j.num, u.out),
                                            den |-> inv_j.den], dt))])))))

\* TaskSpaceVelocityController::step: the controller and the arm after the
\* call and the Result returned. The PID is updated after the checks of the
\* velocity vector and of the Jacobian, and before the check of the inverse
\* Jacobian.
VelocityStep(c, a, xdot_ref, dt) ==
    Bind(VecToVector6(JointVelocities(a)), LAMBDA qdot :
      IF ~qdot.ok THEN [ctl |-> c, arm |-> a, ret |-> qdot]
      ELSE
      Bind(ArmUpdate(a), LAMBDA a1 :
      Bind(a1.jacobian[1], LAMBDA j :
        IF NRows(j) # 6 \/ NCols(j) # 6
        THEN [ctl |-> c, arm |-> a1, ret |-> Err("Jacobian shape mismatch")]
        ELSE
        Bind(MatrixPid6Update(c.pid, VecSub(xdot_ref, MatVec(j, qdot.val)), dt), LAMBDA u :
        Bind(a1.inv_jacobian[1], LAMBDA inv_j :
          IF NRows(inv_j.num) # 6 \/ NCols(inv_j.num) # 6
          THEN [ctl |-> [c EXCEPT !.pid = u.pid], arm |-> a1,
                ret |-> Err("Inverse Jacobian shape mismatch")]
          ELSE [ctl |-> [c EXCEPT !.pid = u.pid], arm |-> a1,
                ret |-> Ok(Vector6ToVecF32([num |-> MatVec(inv_j.num, u.out),
                                            den |-> inv_j.den], dt))])))))

\* The arms a controller is stepped on: of six joints, of two and of seven.
StepArms == {ArmR6, ArmRR, ArmR7}

MaxSteps == 2

\* Gain matrices of the PID: diagonal, and with one entry off the diagonal.
GainKp == Identity(6)

GainKi == [Identity(6) EXCEPT ![1][2] = 1]

GainKd == ScaleMat(Identity(6), 2)

XdotRefs == {Zeros(6), << 2, 0, 0, 0, 0, 2 >>}

\* The step is exact in the model: the derivative divides by dt without a
\* remainder and the pseudo-inverse is an exact inverse.
ExactStep(c, a, xdot_ref, dt) ==
    Len(a.joints) = 6 =>
        /\ ExactPinv(a, a.damping)
        /\ \A i \in 1..6 :
              (VecSub(xdot_ref, MatVec(ComputeJacobian(a.dh_table, a.joints),
                                       JointVelocities(a)))[i]
                 - c.pid.prev_error[i]) % dt = 0

InitVel ==
    /\ arm \in StepArms
    /\ ctl = [pid |-> MatrixPid6New(GainKp, GainKi, GainKd)]
    /\ joint = FreshJoint
    /\ call = NoCall
    /\ ret = Returns(<< >>)
    /\ recomputes = 0
    /\ warnings = 0
    /\ hist = NoHist
    /\ sim = NoSim

\* Velocities handed to set_joint_velocities before a step: the same value
\* for every joint, or a value for the first joint only.
VelInputsStep(a) ==
    {Tuple([k \in 1..Len(a.joints) |-> v]) : v \in VelValues(a.joints[1])}
    \cup {Tuple([k \in 1..Len(a.joints) |-> IF k = 1 THEN v ELSE 0]) :
             v \in VelValues(a.joints[1])}

DoSetJointVelocitiesStep ==
    \E velocities \in VelInputsStep(arm) :
        /\ arm' = ArmSetJointVelocities(arm, velocities)
        /\ call' = [name |-> "set_joint_velocities", velocities |-> velocities]
        /\ ret' = Returns(<< >>)
        /\ recomputes' = 0
        /\ warnings' = 0
        /\ UNCHANGED <<ctl, joint, hist, sim>>

\* Arm::new: another arm takes the place of the one held.
DoArmNew ==
    \E a \in StepArms :
        /\ arm' = a
        /\ call' = [name |-> "Arm::new"]
        /\ ret' = Returns(<< >>)
        /\ recomputes' = 0
        /\ warnings' = 0
        /\ UNCHANGED <<ctl, joint, hist, sim>>

\* controller.step(&arm, xdot_ref, dt)
DoVelocityStep ==
    /\ hist.cycles < MaxSteps
    /\ \E xdot_ref \in XdotRefs, dt \in Dts :
        /\ ExactStep(ctl, arm, xdot_ref, dt)
        /\ \E r \in {VelocityStep(ctl, arm, xdot_ref, dt)} :
            /\ ctl' = r.ctl
            /\ arm' = r.arm
            /\ ret' = Returns(r.ret)
            /\ call' = [name |-> "step", xdot_ref |-> xdot_ref, dt |-> dt]
            /\ recomputes' = IF Len(arm.joints) = 6 THEN UpdateRecomputes(arm) ELSE 0
            /\ warnings' = IF Len(arm.joints) = 6 THEN UpdateWarnings(arm) ELSE 0
            /\ hist' = [hist EXCEPT !.cycles = hist.cycles + 1]
            /\ UNCHANGED <<joint, sim>>

NextVel ==
    \/ DoArmNew
    \/ DoSetJointVelocitiesStep
    \/ DoVelocityStep

SpecVel == InitVel /\ [][NextVel]_vars

\* ------------------------------------------------------------------------
\* Properties
\* ------------------------------------------------------------------------

\* The step is a call of compute.
ComputeCalled == hist'.cycles = hist.cycles + 1

\* The end-effector pose compute reads in its step 2, arm.frame_pose(F - 1).
WristPose(a) == FramePose(a, Len(a.dh_table) - 1).val

LinearPart(xd_des_arr) == << xd_des_arr[1], xd_des_arr[2], xd_des_arr[3] >>

\* The angular part of the command in rad/s, still in the end-effector frame.
AngularPartEE(xd_des_arr) ==
    << ToRadians(xd_des_arr[4]), ToRadians(xd_des_arr[5]), ToRadians(xd_des_arr[6]) >>

\* [w]x, the cross-product matrix of w.
Skew(w) == << << 0, -w[3], w[2] >>, << w[3], 0, -w[1] >>, << -w[2], w[1], 0 >> >>

\* C1: on the first compute call with an inactive command (the first call of
\* a fresh controller included) x_ref and r_ref become the pose compute reads
\* from the arm and holding becomes true; on every following consecutive
\* inactive call x_ref and r_ref are unchanged, whatever the motor positions.
C1_HoldReferenceFrozen ==
    [][ (ComputeCalled /\ ~ActiveCommand(call'.xd_des_arr)) =>
          /\ ctl'.holding
          /\ IF hist.released
             THEN ctl'.x_ref = ctl.x_ref /\ ctl'.r_ref = ctl.r_ref
             ELSE /\ ctl'.x_ref = WristPose(arm').position
                  /\ ctl'.r_ref = WristPose(arm').rotation ]_vars

\* A third or later call, inactive like the one before it, with the arm away
\* from the pose that was captured.
C1_Witness ==
    /\ call.name = "compute"
    /\ hist.cycles >= 3
    /\ ~ActiveCommand(call.xd_des_arr)
    /\ ctl.holding
    /\ ctl.x_ref # WristPose(arm).position
    /\ ctl.r_ref # WristPose(arm).rotation

\* C2: after every compute call holding is true exactly when neither the
\* linear norm nor the angular norm (in rad/s) of that call's command exceeds
\* vel_eps; a norm equal to vel_eps does not exceed it; a holding controller
\* given an active command is tracking, its reference already integrated, at
\* the end of that call.
C2_ModeDecidedPerCycle ==
    [][ ComputeCalled =>
          /\ ctl'.holding = ~ActiveCommand(call'.xd_des_arr)
          /\ (ctl.holding /\ ActiveCommand(call'.xd_des_arr)) =>
                ctl'.x_ref = VecAdd(ctl.x_ref,
                                    VecScale(LinearPart(call'.xd_des_arr), call'.dt)) ]_vars

\* A command whose norms are both exactly vel_eps (its angular part in
\* degrees far above) leaves a controller that was tracking in Holding.
C2_Witness ==
    /\ call.name = "compute"
    /\ call.xd_des_arr = CmdAtEps
    /\ hist.cycles >= 2
    /\ hist.tracking >= 1
    /\ ctl.holding

\* C3: in a tracking cycle x_ref' = x_ref + v * dt and, when the cycle does
\* not re-orthonormalise, r_ref' = (I + [w_world]x * dt) * r_ref with
\* w_world = R_current * w_ee and w_ee the commanded rate in rad/s; the
\* feed-forward term of u_task is (v, w_world).
C3_ReferenceIntegratedOnce ==
    [][ (ComputeCalled /\ ActiveCommand(call'.xd_des_arr)) =>
          Bind(<< LinearPart(call'.xd_des_arr),
                  MatVec(WristPose(arm').rotation, AngularPartEE(call'.xd_des_arr)),
                  call'.dt, ctl, ctl', call'.u_task >>,
               LAMBDA t :
                  /\ t[5].x_ref = VecAdd(t[4].x_ref, VecScale(t[1], t[3]))
                  /\ t[5].cycle_count % OrthonormInterval # 0 =>
                        t[5].r_ref = MatMul(MatAdd(Identity(3),
                                                   ScaleMat(Skew(t[2]), t[3])),
                                            t[4].r_ref)
                  /\ VecScale(VecSub(VecSub(t[6], VecScale(t[1] \o t[2], Fx)),
                                     VecAdd(ComponentMul(t[5].kp, t[5].prev_error),
                                            ComponentMul(t[5].ki, t[5].integral_error))),
                              t[3])
                        = ComponentMul(t[5].kd,
                                       VecSub(t[5].prev_error, t[4].prev_error))) ]_vars

\* A tracking cycle with dt = 2 whose commanded rate, rotated into the world
\* frame, differs from the rate in the end-effector frame.
C3_Witness ==
    /\ call.name = "compute"
    /\ call.xd_des_arr = CmdAngular
    /\ call.dt = 2
    /\ ~ctl.holding
    /\ hist.cycles >= 2
    /\ MatVec(WristPose(arm).rotation, AngularPartEE(call.xd_des_arr))
          # AngularPartEE(call.xd_des_arr)

\* q is the orthonormal factor of r: q^T * q = I and q^T * r is diagonal
\* with positive entries.
IsPolarFactor(q, r) ==
    /\ MatMul(Transpose(q), q) = Identity(3)
    /\ \A i, j \in 1..3 :
          IF i = j THEN MatMul(Transpose(q), r)[i][j] > 0
                   ELSE MatMul(Transpose(q), r)[i][j] = 0

\* The reference rotation integrated over one cycle, (I + [w_world]x * dt) * r_ref.
C4Integrated(r_ref, r_curr, xd_des_arr, dt) ==
    MatMul(MatAdd(Identity(3),
                  ScaleMat(Skew(MatVec(r_curr, AngularPartEE(xd_des_arr))), dt)),
           r_ref)

\* C4: cycle_count is the number of tracking cycles since construction (hold
\* cycles do not advance it, capturing a reference does not reset it); a
\* tracking cycle replaces the integrated r_ref by its orthonormal factor
\* exactly when that number is a multiple of orthonorm_interval, and leaves
\* it as integrated in every other tracking cycle.
C4_OrthonormalisedEvery50 ==
    [][ ComputeCalled =>
          /\ ctl'.cycle_count = hist'.tracking
          /\ ActiveCommand(call'.xd_des_arr) =>
                Bind(C4Integrated(ctl.r_ref, WristPose(arm').rotation,
                                  call'.xd_des_arr, call'.dt),
                     LAMBDA integrated :
                        IF hist'.tracking % OrthonormInterval = 0
                        THEN IsPolarFactor(ctl'.r_ref, integrated)
                        ELSE ctl'.r_ref = integrated) ]_vars

\* The 50th tracking cycle comes after the 50th call because of hold cycles
\* in between, it turns, and r_ref is orthonormal after it and turned away
\* from the rotation that was captured.
C4_Witness ==
    /\ call.name = "compute"
    /\ call.xd_des_arr = CmdTurn
    /\ hist.tracking = OrthonormInterval
    /\ hist.cycles > OrthonormInterval
    /\ ctl.cycle_count = OrthonormInterval
    /\ MatMul(Transpose(ctl.r_ref), ctl.r_ref) = Identity(3)
    /\ ctl.r_ref # WristPose(arm).rotation

\* The error of the reference (x_ref, r_ref) against the pose, in units of
\* 1 / Fx: x_ref - p and half the sum of the cross products of the axes.
C5Error(x_ref, r_ref, pose) ==
    << Fx * (x_ref[1] - pose.position[1]),
       Fx * (x_ref[2] - pose.position[2]),
       Fx * (x_ref[3] - pose.position[3]) >>
    \o VecScale(VecAdd(Cross(Column(pose.rotation, 1), Column(r_ref, 1)),
                       VecAdd(Cross(Column(pose.rotation, 2), Column(r_ref, 2)),
                              Cross(Column(pose.rotation, 3), Column(r_ref, 3)))),
                Fx \div 2)

\* pinv(J) of the arm's current joint state times u, as a rational vector.
C5PinvTimesU(a, u) ==
    Bind(DampedMoorePenrosePseudoInverse(a.dh_table, a.joints, << >>, << a.damping >>),
         LAMBDA p : [num |-> MatVec(p.num, u), den |-> p.den * Fx])

\* The PID law between the controller before (c) and after (c1) a call.
C5Law(e, ff, c, c1, u, dt) ==
    /\ c1.prev_error = e
    /\ c1.integral_error = VecAdd(c.integral_error, VecScale(e, dt))
    /\ VecScale(VecSub(VecSub(u, VecScale(ff, Fx)),
                       VecAdd(ComponentMul(c1.kp, e),
                              ComponentMul(c1.ki, c1.integral_error))),
                dt)
          = ComponentMul(c1.kd, VecSub(e, c.prev_error))

\* C5: every compute call has e = (x_ref - p_current, 0.5 * sum of
\* axis_current x axis_ref) with the reference as updated in this call,
\* I' = I + e * dt, D = (e - e_prev) / dt, stores e as e_prev,
\* u = (v, w_world) + kp.*e + ki.*I' + kd.*D, and returns pinv(J) * u
\* converted from rad/s to degrees/s.
C5_PidLawInDegrees ==
    [][ ComputeCalled =>
          /\ Bind(arm', LAMBDA a :
             Bind(WristPose(a), LAMBDA pose :
                C5Law(C5Error(ctl'.x_ref, ctl'.r_ref, pose),
                      LinearPart(call'.xd_des_arr)
                        \o MatVec(pose.rotation, AngularPartEE(call'.xd_des_arr)),
                      ctl, ctl', call'.u_task, call'.dt)))
          /\ Bind(C5PinvTimesU(arm', call'.u_task), LAMBDA q :
                ret'.val = Reduce([num |-> VecScale(q.num, 180 * 113),
                                   den |-> q.den * 355])) ]_vars

\* A second or later call with dt = 2 and a nonzero error that differs from
\* the error before it, an integral that holds more than this call's term,
\* and a nonzero joint command.
C5_Witness ==
    /\ call.name = "compute"
    /\ call.dt = 2
    /\ hist.cycles >= 2
    /\ ctl.prev_error # Zeros(6)
    /\ ctl.integral_error # VecScale(ctl.prev_error, call.dt)
    /\ call.u_task # Zeros(6)
    /\ ret.val.num # Zeros(2)

\* C5 as stated: the value compute returns is pinv(J) * u itself.
C5_ReturnsPinvTimesU ==
    call.name = "compute" => ret.val = Reduce(C5PinvTimesU(arm, call.u_task))

Setters == {"set_joint_positions", "set_joint_velocities"}

Queries == {"update", "jacobian", "inv_jacobian"}

\* The cached matrices of arm a are present and are those of its joints.
C6CacheCurrent(a) ==
    /\ a.jacobian = << ComputeJacobian(a.dh_table, a.joints) >>
    /\ a.inv_jacobian = << DampedMoorePenrosePseudoInverse(a.dh_table, a.joints,
                                << a.jacobian[1] >>, << a.damping >>) >>

\* C6: after every call, a clean arm holds both cached matrices and they are
\* those of the current joints; jacobian() and inv_jacobian() return the
\* matrices of the current joints; every setter call leaves dirty set, and
\* dirty goes from false to true only in a setter call.
C6_CacheCoherent ==
    [][ /\ ~arm'.dirty => C6CacheCurrent(arm')
        /\ call'.name = "jacobian" =>
              ret' = Returns(ComputeJacobian(arm'.dh_table, arm'.joints))
        /\ call'.name = "inv_jacobian" =>
              ret' = Returns(DampedMoorePenrosePseudoInverse(
                                arm'.dh_table, arm'.joints, << >>, << arm'.damping >>))
        /\ call'.name \in Setters => arm'.dirty
        /\ (arm'.dirty /\ ~arm.dirty) => call'.name \in Setters ]_vars

\* inv_jacobian() answered from the cache for an arm that has been moved.
C6_Witness ==
    /\ call.name = "inv_jacobian"
    /\ recomputes = 0
    /\ ~arm.dirty
    /\ arm.joints[1].position # 0
    /\ arm.joints[2].position # 0

\* C7: a compute call recomputes the Jacobian and its pseudo-inverse at most
\* once; an update(), jacobian() or inv_jacobian() call that follows another
\* of them, or a compute call, with no setter call in between recomputes
\* nothing.
C7_OneRecomputePerCycle ==
    [][ /\ ComputeCalled => recomputes' <= 1
        /\ (~ComputeCalled /\ call.name \in Queries \cup {"compute"}
              /\ call'.name \in Queries) =>
              (recomputes' = 0 /\ arm' = arm) ]_vars

\* A query after the second compute call that recomputed nothing.
C7_Witness ==
    /\ call.name \in Queries
    /\ hist.cycles = 2
    /\ recomputes = 0
    /\ ~arm.dirty
    /\ arm.joints[1].position # 0

\* C8: a joint with both limits set has limit_min <= position <= limit_max,
\* after Joint::new and after every set_position and set_velocity call.
C8_PositionWithinLimits ==
    (joint.limit_min # << >> /\ joint.limit_max # << >>) =>
        (joint.limit_min[1] <= joint.position /\ joint.position <= joint.limit_max[1])

\* The product T_j * T_(j+1) * ... * T_(i-1) of the row transforms, folded
\* from the right (row f of the program is rows[f + 1]).
RECURSIVE C9OrderedProduct(_, _, _, _)
C9OrderedProduct(rows, joints, j, i) ==
    IF j + 1 = i THEN GetRowTransMat(rows[j + 1], joints)
    ELSE MatMul(GetRowTransMat(rows[j + 1], joints), C9OrderedProduct(rows, joints, j + 1, i))

\* C9: transformation_matrix_j_i(j, i) and pose_between_j_i(j, i) fault
\* unless j < i <= F; otherwise the matrix is the ordered product of rows
\* j .. i-1, it equals T(j,k) * T(k,i) for every j < k < i, and the pose is
\* the pose of that matrix.
C9_OrderedChainProduct ==
    call.name \in {"transformation_matrix_j_i", "pose_between_j_i"} =>
        IF call.j < call.i /\ call.i <= Len(arm.dh_table)
        THEN Bind(C9OrderedProduct(arm.dh_table, arm.joints, call.j, call.i), LAMBDA t :
                /\ ~ret.panic
                /\ IF call.name = "transformation_matrix_j_i"
                   THEN ret.val = t
                   ELSE /\ ret.val = FromHomogeneous(t)
                        /\ ret.val = FromHomogeneous(
                              TransformationMatrixJI(arm.dh_table, call.j, call.i,
                                                     arm.joints).val)
                /\ \A k \in (call.j + 1)..(call.i - 1) :
                      t = MatMul(TransformationMatrixJI(arm.dh_table, call.j, k,
                                                        arm.joints).val,
                                 TransformationMatrixJI(arm.dh_table, k, call.i,
                                                        arm.joints).val))
        ELSE ret.panic

\* The whole chain of a moved arm, a product of three rows that do not commute.
C9_Witness ==
    /\ call.name = "transformation_matrix_j_i"
    /\ call.j = 0
    /\ call.i = Len(arm.dh_table)
    /\ ~ret.panic
    /\ arm.joints[1].position # 0
    /\ ret.val # MatMul(GetRowTransMat(arm.dh_table[3], arm.joints),
                        MatMul(GetRowTransMat(arm.dh_table[2], arm.joints),
                               GetRowTransMat(arm.dh_table[1], arm.joints)))

\* C10: frame_pose(k) returns element k of frame_poses() for k < F and
\* faults for k >= F.
C10_FramePoseIsElementK ==
    call.name = "frame_pose" =>
        IF call.frame_index < Len(arm.dh_table)
        THEN ret = Returns(FramePoses(arm)[call.frame_index + 1])
        ELSE ret.panic

\* The joints with every joint but the one of 0-based index q moved to the
\* positions of other.
C11OthersMoved(joints, other, q) ==
    Tuple([k \in 1..Len(joints) |-> IF k = q + 1 THEN joints[k] ELSE other[k]])

\* The transform of a row from its stored parameters with theta_add added
\* to theta and d_add to d.
C11Shifted(row, theta_add, d_add) ==
    DhRowMatrix(row.a, row.alpha, row.d + d_add, row.theta + theta_add)

\* C11: the transform of a non-fixed row is that of its stored parameters
\* with the position of its joint added to theta only (revolute) or to d
\* only (prismatic) and is the same whatever the other joints' positions; the
\* transform of a fixed row is that of its stored parameters alone, also
\* when the row carries a joint index; the call leaves the table as it was.
C11_RowTransformUsesOwnJoint ==
    [][ call'.name = "get_row_trans_mat" =>
          LET row == arm.dh_table[call'.row_index + 1]
          IN  /\ arm'.dh_table = arm.dh_table
              /\ IF row.fixed_frame
                 THEN ret'.val = C11Shifted(row, 0, 0)
                 ELSE LET q  == row.joint_index[1]
                          jt == arm.joints[q + 1]
                      IN  /\ ret'.val = IF jt.joint_type = "Revolute"
                                        THEN C11Shifted(row, jt.position, 0)
                                        ELSE C11Shifted(row, 0, jt.position)
                          /\ \A positions \in PosInputs(arm) :
                                GetRowTransMat(row,
                                    C11OthersMoved(arm.joints,
                                        ArmSetJointPositions(arm, positions).joints, q))
                                  = ret'.val ]_vars

\* The transform of a fixed row that carries a joint index, evaluated with
\* that joint away from 0.
C11_Witness ==
    /\ call.name = "get_row_trans_mat"
    /\ arm.dh_table[call.row_index + 1].fixed_frame
    /\ arm.dh_table[call.row_index + 1].joint_index # << >>
    /\ arm.joints[arm.dh_table[call.row_index + 1].joint_index[1] + 1].position # 0
    /\ ret.val = C11Shifted(arm.dh_table[call.row_index + 1], 0, 0)

\* The cumulative pose through row i (counted from 1): the pose of the
\* product of the transforms of rows 1 .. i.
C12PoseThrough(a, i) == FromHomogeneous(C9OrderedProduct(a.dh_table, a.joints, 0, i))

\* The column the claim gives for the non-fixed row i of arm a.
C12Column(a, i) ==
    Bind(<< C12PoseThrough(a, i), C12PoseThrough(a, Len(a.dh_table)) >>, LAMBDA t :
        IF a.joints[a.dh_table[i].joint_index[1] + 1].joint_type = "Revolute"
        THEN Cross(Column(t[1].rotation, 3), VecSub(t[2].position, t[1].position))
               \o Column(t[1].rotation, 3)
        ELSE Column(t[1].rotation, 3) \o << 0, 0, 0 >>)

\* C12: the Jacobian is 6 x J; for every non-fixed row i with joint q its
\* column q is (z_i x (p_end - p_i), z_i) for a revolute joint and (z_i, 0)
\* for a prismatic one, with z_i, p_i of the cumulative pose through row i
\* and p_end the position of the pose through the last row; a fixed row
\* writes no column, also when it carries a joint index.
C12_JacobianColumns ==
    call.name = "jacobian" =>
        /\ ~ret.panic
        /\ Len(ret.val) = 6
        /\ \A k \in 1..6 : Len(ret.val[k]) = Len(arm.joints)
        /\ \A i \in 1..Len(arm.dh_table) :
              ~arm.dh_table[i].fixed_frame =>
                  Column(ret.val, arm.dh_table[i].joint_index[1] + 1) = C12Column(arm, i)

\* The Jacobian of the arm with the indexed fixed row, moved, with a
\* revolute column whose linear block is not zero and a prismatic column
\* that is not the one the fixed row would have written.
C12_Witness ==
    /\ call.name = "jacobian"
    /\ arm.dh_table = RowsFx
    /\ arm.joints[1].position # 0
    /\ arm.joints[2].position # 0
    /\ << ret.val[1][2], ret.val[2][2], ret.val[3][2] >> # << 0, 0, 0 >>
    /\ << ret.val[4][1], ret.val[5][1], ret.val[6][1] >> = << 0, 0, 0 >>
    /\ Column(ret.val, 1) # Column(C12PoseThrough(arm, 2).rotation, 3) \o << 0, 0, 0 >>

PinvCalls == {"inv_jacobian", "damped_moore_penrose_pseudo_inverse"}

\* The lambda of the last call: the arm's damping for update() and
\* inv_jacobian(), else the lambda handed in or 1e-4 when none was.
C13Lambda ==
    IF call.name \in {"update", "inv_jacobian"} THEN arm.damping
    ELSE IF call.lambda = << >> THEN [num |-> 1, den |-> 10000]
    ELSE call.lambda[1]

\* m + lambda^2 * I multiplied by den^2, for lambda = num / den.
C13Damped(m, lam) ==
    MatAdd(ScaleMat(m, lam.den * lam.den), ScaleMat(Identity(NRows(m)), lam.num * lam.num))

\* p = num / den is jac^T * s^-1 (right) or s^-1 * jac^T (left), where s is
\* the damped matrix multiplied by den^2 of lambda = lam.
C13IsInverseTimesJt(p, jac, s, lam, right) ==
    /\ p.den # 0
    /\ IF NCols(jac) = 1
       THEN /\ p.num = ScaleMat(Transpose(jac), lam.den * lam.den)
            /\ p.den = s[1][1]
       ELSE (IF right THEN MatMul(p.num, s) ELSE MatMul(s, p.num))
               = ScaleMat(Transpose(jac), p.den * lam.den * lam.den)

\* C13: with J >= 6 joints the matrix inverted is J * J^T + lambda^2 * I
\* (6 x 6) and the result is J^T times its inverse; with J < 6 it is
\* J^T * J + lambda^2 * I (J x J) and the result is its inverse times J^T;
\* lambda is 1e-4 when none is handed in, and the arm hands in its damping.
C13_SmallerMatrixInverted ==
    call.name \in PinvCalls =>
        Bind(ComputeJacobian(arm.dh_table, arm.joints), LAMBDA jac :
            IF Len(arm.joints) >= 6
            THEN Bind(C13Damped(MatMul(jac, Transpose(jac)), C13Lambda), LAMBDA s :
                    /\ InverseArgument(jac, C13Lambda) = s
                    /\ NRows(s) = 6
                    /\ Det(s) # 0 => C13IsInverseTimesJt(ret.val, jac, s, C13Lambda, TRUE))
            ELSE Bind(C13Damped(MatMul(Transpose(jac), jac), C13Lambda), LAMBDA s :
                    /\ InverseArgument(jac, C13Lambda) = s
                    /\ NRows(s) = Len(arm.joints)
                    /\ Det(s) # 0 => C13IsInverseTimesJt(ret.val, jac, s, C13Lambda, FALSE)))

\* The pseudo-inverse of the seven-joint arm without damping: J^T * J is
\* singular, J * J^T is not, and the result is not zero.
C13_Witness ==
    /\ call.name = "damped_moore_penrose_pseudo_inverse"
    /\ Len(arm.joints) = 7
    /\ call.lambda = << Whole(0) >>
    /\ call.maybe_j = << >>
    /\ warnings = 0
    /\ ret.val.den # 0
    /\ ret.val.num # ZeroMat(7, 6)

\* The damped matrix of the last call is singular.
C14Singular ==
    Bind(ComputeJacobian(arm.dh_table, arm.joints), LAMBDA jac :
        Det(C13Damped(IF Len(arm.joints) >= 6 THEN MatMul(jac, Transpose(jac))
                                              ELSE MatMul(Transpose(jac), jac),
                      C13Lambda)) = 0)

C14Zero == [num |-> ZeroMat(Len(arm.joints), 6), den |-> 1]

\* C14: no call of the pseudo-inverse, update() or inv_jacobian() panics;
\* when the damped matrix is singular the pseudo-inverse returns the zero
\* J x 6 matrix and prints one warning, and prints none otherwise; update()
\* and inv_jacobian() then hold that zero matrix in the cache with dirty
\* cleared.
C14_ZeroMatrixOnFailure ==
    /\ call.name = "damped_moore_penrose_pseudo_inverse" =>
          /\ ~ret.panic
          /\ IF C14Singular THEN ret.val = C14Zero /\ warnings = 1 ELSE warnings = 0
    /\ call.name \in {"update", "inv_jacobian"} =>
          /\ ~ret.panic
          /\ ~arm.dirty
          /\ warnings = (IF recomputes = 1 /\ C14Singular THEN 1 ELSE 0)
          /\ C14Singular => arm.inv_jacobian = << C14Zero >>
          /\ (C14Singular /\ call.name = "inv_jacobian") => ret.val = C14Zero

\* inv_jacobian() of the arm of six prismatic joints: the 6 x 6 matrix is
\* singular, a warning is printed and the zero matrix is cached.
C14_Witness ==
    /\ call.name = "inv_jacobian"
    /\ Len(arm.joints) = 6
    /\ recomputes = 1
    /\ warnings = 1
    /\ ~arm.dirty
    /\ arm.inv_jacobian = << [num |-> ZeroMat(6, 6), den |-> 1] >>
    /\ arm.joints[1].position # 0

\* The table of the last DHTable::new, as the arm holds it.
C15Built == call.name = "DHTable::new" /\ ~ret.panic

\* C15: DHTable::new of a table without rows fails.
C15_ZeroFramesRejected ==
    (call.name = "DHTable::new" /\ Len(call.rows) = 0) => ret.panic

\* C16: every table that DHTable::new returns has, in each non-fixed row, a
\* joint index below the number of joints.
C16_RowInvariantAtConstruction ==
    C15Built =>
        \A i \in 1..Len(arm.dh_table) :
            ~arm.dh_table[i].fixed_frame =>
                /\ arm.dh_table[i].joint_index # << >>
                /\ arm.dh_table[i].joint_index[1] < Len(arm.joints)

IkCalled == call.name \in {"solve_ik", "solve_ik_from_pose"}

IkCountError == IkErr("URT IK Solver requires 5 link parameters")

IkWorkspaceError == IkErr("Target out of workspace: theta3 complex")

\* C17: solve_ik with a slice of any length other than 5 returns the
\* configuration error, whatever the slice and the target pose hold.
C17_FiveLinkLengthsRequired ==
    (IkCalled /\ Len(call.link_lengths) # 5) => ret = Returns(IkCountError)

\* solve_ik with six link lengths, the first five of which it accepts.
C17_Witness ==
    /\ call.name = "solve_ik"
    /\ call.link_lengths = << 0, 1, 1, 1, 0, 0 >>
    /\ call.target = [position |-> << 0, 0, 3 >>, rotation |-> Identity(3)]
    /\ ret = Returns(IkCountError)

\* The wrist centre, cos_theta3 and the angles of the last call of solve_ik.
C18Wrist ==
    WristCentre(call.target.position[1], call.target.position[2], call.target.position[3],
                call.target.rotation, call.link_lengths)

C18Cos == CosTheta3(C18Wrist, call.link_lengths)

C18CosExceedsOne ==
    \/ C18Cos.den = 0 /\ C18Cos.num # 0
    \/ C18Cos.den # 0 /\ C18Cos.num * C18Cos.num > C18Cos.den * C18Cos.den

C18Angles == IkAngles(C18Wrist, call.target.rotation, call.link_lengths)

\* C18: solve_ik never panics; it returns the count error first, then the
\* workspace error when |cos_theta3| > 1, then an error when one of theta1
\* to theta3 is not finite, then an error when any angle is not finite, and
\* Ok with six finite angles otherwise.
C18_ErrorsInOrder ==
    IkCalled =>
        /\ ~ret.panic
        /\ IF Len(call.link_lengths) # 5 THEN ret.val = IkCountError
           ELSE IF C18CosExceedsOne THEN ret.val = IkWorkspaceError
           ELSE IF C18Angles.nan \cap 1..3 # {}
           THEN ret.val = IkErr("Target out of workspace: base joints complex")
           ELSE IF C18Angles.nan # {}
           THEN ret.val = IkErr("One or more joint angles are invalid")
           ELSE /\ ret.val.ok
                /\ Len(ret.val.thetas) = 6
                /\ ret.val.thetas = C18Angles.thetas

\* solve_ik of a matrix that is no rotation: theta1 to theta3 are finite,
\* theta5 is not, and the last check returns the error.
C18_Witness ==
    /\ call.name = "solve_ik"
    /\ Len(call.link_lengths) = 5
    /\ ~C18CosExceedsOne
    /\ C18Angles.nan = {5}
    /\ ret = Returns(IkErr("One or more joint angles are invalid"))

\* Squared distance of the point p from the shoulder, the point at height
\* l1 on the base axis.
C19Distance2(p) ==
    p[1] * p[1] + p[2] * p[2]
        + (p[3] - call.link_lengths[1]) * (p[3] - call.link_lengths[1])

C19Reach2 ==
    (call.link_lengths[2] + call.link_lengths[3])
        * (call.link_lengths[2] + call.link_lengths[3])

C19PositiveLinks ==
    /\ IkCalled
    /\ Len(call.link_lengths) = 5
    /\ call.link_lengths[2] > 0
    /\ call.link_lengths[3] > 0

\* C19 as stated: a target whose position is farther than l2 + l3 from the
\* shoulder is rejected with the workspace error.
C19_FarTargetRejected ==
    (C19PositiveLinks /\ C19Distance2(call.target.position) > C19Reach2) =>
        ret = Returns(IkWorkspaceError)

\* C19: a target whose wrist centre, its position moved back by l4 + l5
\* along the third column of r, is farther than l2 + l3 from the shoulder
\* is rejected with the workspace error.
C19_FarWristCentreRejected ==
    (C19PositiveLinks /\ C19Distance2(C18Wrist) > C19Reach2) =>
        ret = Returns(IkWorkspaceError)

\* A rejected target with a rotated approach axis whose wrist centre is not
\* its position.
C19_Witness ==
    /\ C19PositiveLinks
    /\ C19Distance2(C18Wrist) > C19Reach2
    /\ C18Wrist # call.target.position
    /\ call.target.rotation # Identity(3)
    /\ ret = Returns(IkWorkspaceError)

\* The pose of the last frame with the joints at the angles thetas.
C20Pose(thetas) ==
    AllPoses(arm.dh_table,
             Tuple([k \in 1..6 |-> [arm.joints[k] EXCEPT !.position = thetas[k]]]))[7]

\* C20: solve_ik of the pose of the arm, with the link lengths of the arm or
\* those its table is built on, returns angles at which the arm has that pose.
C20_IkRoundTrip ==
    (/\ IkCalled
     /\ call.target = EndEffectorPose(arm)
     /\ call.link_lengths \in {arm.ik_link_parameters, << 9, 34, 32, 15, 15 >>}) =>
        /\ ret.val.ok
        /\ C20Pose(ret.val.thetas) = call.target

\* frame_poses() was called with every joint at position 0.
C21AtZero ==
    /\ call.name = "frame_poses"
    /\ \A k \in 1..Len(arm.joints) : arm.joints[k].position = 0

\* C21 as stated: with all joints at zero the last frame of the arm of
\* main.rs is at height 56.
C21_ZeroHeightIs56 ==
    (C21AtZero /\ arm.dh_table = ArmUrt.dh_table) => ret.val[7].position[3] = 56

\* C21: with all joints at zero the last frame of the arm of main.rs is at
\* height 105 = 9 + 34 + 32 + 15 + 15, on the base axis.
C21_ZeroHeightIs105 ==
    (C21AtZero /\ arm.dh_table = ArmUrt.dh_table) => ret.val[7].position = << 0, 0, 105 >>

\* frame_poses() of the arm of main.rs with all joints at zero.
C21_Witness ==
    /\ C21AtZero
    /\ arm.dh_table = ArmUrt.dh_table
    /\ ~ret.panic
    /\ Len(ret.val) = 7
    /\ ret.val[7].position[3] = 105

\* Every row of the arm has alpha = 0 and theta = 0.
C22PureOffsets ==
    \A i \in 1..Len(arm.dh_table) : arm.dh_table[i].alpha = 0 /\ arm.dh_table[i].theta = 0

RECURSIVE C22SumA(_)
C22SumA(i) == IF i = 0 THEN 0 ELSE arm.dh_table[i].a + C22SumA(i - 1)

RECURSIVE C22SumD(_)
C22SumD(i) == IF i = 0 THEN 0 ELSE arm.dh_table[i].d + C22SumD(i - 1)

\* C22: for a chain of pure offsets with all joints at zero, frame i of
\* frame_poses() has the identity rotation and the position (sum of a, 0,
\* sum of d) over rows 0..i.
C22_StraightChainOfTranslations ==
    (C21AtZero /\ C22PureOffsets) =>
        /\ Len(ret.val) = Len(arm.dh_table)
        /\ \A i \in 1..Len(arm.dh_table) :
              /\ ret.val[i].rotation = Identity(3)
              /\ ret.val[i].position = << C22SumA(i), 0, C22SumD(i) >>

\* frame_poses() of the four-row chain with offsets along x and z.
C22_Witness ==
    /\ C21AtZero
    /\ C22PureOffsets
    /\ Len(arm.dh_table) = 4
    /\ ret.val[4].position = << 6, 0, 6 >>

\* C23: the pose compute captures on entering the hold mode is the pose of
\* the last frame with all F rows composed, the frame whose position
\* compute_jacobian takes as p_end.
C23_ComputeUsesLastFrame ==
    [][ (ComputeCalled /\ ~ActiveCommand(call'.xd_des_arr) /\ ~hist.released) =>
          /\ ctl'.x_ref = FramePoses(arm')[Len(arm'.dh_table)].position
          /\ ctl'.r_ref = FramePoses(arm')[Len(arm'.dh_table)].rotation ]_vars

\* C24: one iteration of the loop of the simulator makes one integration
\* step of size dt and one kinematics update.
C24_OneStepPerIteration ==
    [][ call'.name = "run_iteration" /\ ~call'.space =>
          /\ Len(call'.steps) = 1
          /\ sim'[1].joint_vars
                = SimStep(arm, [sim[1] EXCEPT !.task_vel = VecAdd(sim[1].task_vel,
                                                                  call'.task_keys)]).sim.joint_vars
          /\ recomputes' = 1 ]_vars

\* C25: a controller that has made no call has holding = false, x_ref = 0
\* and r_ref = identity, and a first call with an active command integrates
\* the reference from that zero position and identity orientation, not from
\* the pose of the arm.
C25_FirstCallTracksFromZero ==
    [][ hist.cycles = 0 =>
          /\ ~ctl.holding
          /\ ctl.x_ref = Zeros(3)
          /\ ctl.r_ref = Identity(3)
          /\ (ComputeCalled /\ ActiveCommand(call'.xd_des_arr)) =>
                /\ ~ctl'.holding
                /\ ctl'.x_ref = VecScale(LinearPart(call'.xd_des_arr), call'.dt)
                /\ ctl'.r_ref = IntegrateOrientation(Identity(3),
                                    MatVec(WristPose(arm').rotation,
                                           AngularPartEE(call'.xd_des_arr)),
                                    call'.dt) ]_vars

\* A first call with an active command, after which the reference is neither
\* the pose of the arm nor that pose advanced by the command.
C25_Witness ==
    /\ hist.cycles = 1
    /\ call.name = "compute"
    /\ ActiveCommand(call.xd_des_arr)
    /\ ~ctl.holding
    /\ ctl.x_ref # WristPose(arm).position
    /\ ctl.x_ref # VecAdd(WristPose(arm).position,
                          VecScale(LinearPart(call.xd_des_arr), call.dt))
    /\ ctl.r_ref # WristPose(arm).rotation

\* C26: integral_error and prev_error are never reset. After any number of
\* calls, in any interleaving of tracking and hold cycles, integral_error is
\* the sum of error * dt over all the calls made and prev_error is the
\* error of the last call.
C26_IntegralNeverReset ==
    /\ ctl.integral_error = hist.sum_error_dt
    /\ ctl.prev_error = hist.last_error

\* Three calls, two of them tracking cycles and one a hold cycle, after which
\* the integral holds more than the term of the last call.
C26_Witness ==
    /\ hist.cycles = 3
    /\ hist.tracking = 2
    /\ ~ctl.holding
    /\ ctl.prev_error # Zeros(6)
    /\ ctl.integral_error # Zeros(6)
    /\ ctl.integral_error # VecScale(ctl.prev_error, call.dt)
    /\ ctl.integral_error = hist.sum_error_dt

\* The feed-forward term of a call: the commanded linear velocity and the
\* commanded angular velocity turned into the world frame.
C27FeedForward ==
    Bind(arm', LAMBDA a :
    Bind(WristPose(a).rotation, LAMBDA r_curr :
        LinearPart(call'.xd_des_arr) \o MatVec(r_curr, AngularPartEE(call'.xd_des_arr))))

\* C27: in the cycle in which the controller enters the hold mode the error
\* is zero in all six components, the integral is left as it was, and the
\* derivative term is -prev_error / dt: u = ff + ki.*I + kd.*(-prev_error / dt).
C27_CaptureCycleHasZeroError ==
    [][ (ComputeCalled /\ ~ctl.holding /\ ctl'.holding) =>
          /\ ctl'.prev_error = Zeros(6)
          /\ ctl'.integral_error = ctl.integral_error
          /\ Bind(C27FeedForward, LAMBDA ff :
              Bind(VecSub(call'.u_task, VecScale(ff, Fx)), LAMBDA pid :
              Bind(VecSub(pid, ComponentMul(ctl.ki, ctl.integral_error)), LAMBDA d :
                VecScale(d, call'.dt)
                  = ComponentMul(ctl.kd, VecSub(Zeros(6), ctl.prev_error))))) ]_vars

\* A capture cycle that follows tracking cycles only: the error is stored as
\* zero while the integral kept what the tracking cycles put into it, and
\* the output u differs from the integral term alone.
C27_Witness ==
    /\ call.name = "compute"
    /\ hist.cycles >= 2
    /\ hist.tracking = hist.cycles - 1
    /\ hist.released
    /\ ctl.holding
    /\ ctl.prev_error = Zeros(6)
    /\ ctl.integral_error # Zeros(6)
    /\ call.u_task # ComponentMul(ctl.ki, ctl.integral_error)

\* The non-fixed rows (1-based) whose joint_index is the joint of column c.
C28RowsOf(rows, c) ==
    {i \in 1..Len(rows) : ~rows[i].fixed_frame /\ rows[i].joint_index[1] + 1 = c}

\* The column the loop of compute_jacobian computes for row i alone.
C28ColumnOfRow(rows, joints, i) ==
    Column(JacobianColumn(rows, joints, AllPoses(rows, joints), i,
                          ZeroMat(6, Len(joints))),
           rows[i].joint_index[1] + 1)

\* The last of the rows that name the joint of column c.
C28LastRowOf(rows, c) ==
    CHOOSE i \in C28RowsOf(rows, c) : \A k \in C28RowsOf(rows, c) : k <= i

\* C28: column c of the Jacobian belongs to the joint with index c, whatever
\* the position of the rows that name it: it is all zero when no non-fixed
\* row names the joint, and holds the values of the last such row when
\* several do.
C28_ColumnsIndexedByJoint ==
    (call.name = "compute_jacobian" /\ ~ret.panic) =>
        \A c \in 1..Len(arm.joints) :
            Column(ret.val, c)
              = IF C28RowsOf(arm.dh_table, c) = {} THEN Zeros(6)
                ELSE C28ColumnOfRow(arm.dh_table, arm.joints,
                                    C28LastRowOf(arm.dh_table, c))

\* compute_jacobian of two rows that both name joint 0 of a two-joint arm:
\* the column of joint 1 is zero, and the column of joint 0 differs from
\* what the first row alone gives.
C28_Witness ==
    /\ call.name = "compute_jacobian"
    /\ ~ret.panic
    /\ Len(arm.joints) = 2
    /\ C28RowsOf(arm.dh_table, 1) = {1, 2}
    /\ Column(ret.val, 2) = Zeros(6)
    /\ Column(ret.val, 1) # Zeros(6)
    /\ Column(ret.val, 1) # C28ColumnOfRow(arm.dh_table, arm.joints, 1)

\* compute_jacobian of a fixed row followed by a row that names joint 0: the
\* values of the second row are in the first column.
C28WitnessShifted ==
    /\ call.name = "compute_jacobian"
    /\ ~ret.panic
    /\ C28RowsOf(arm.dh_table, 1) = {2}
    /\ Column(ret.val, 1) # Zeros(6)

\* The last call of solve_ik had five link lengths of which l2 or l3 is 0.
C29ZeroLink ==
    /\ IkCalled
    /\ Len(call.link_lengths) = 5
    /\ call.link_lengths[2] = 0 \/ call.link_lengths[3] = 0

\* C29: with five link lengths of which l2 or l3 is zero, solve_ik returns
\* an error for every target pose, never Ok and never a panic: the
\* denominator 2 * l2 * l3 is zero, an infinite cosine fails the workspace
\* check and a NaN cosine fails the check of theta1 to theta3.
C29_ZeroLinkAlwaysErr ==
    C29ZeroLink =>
        /\ ~ret.panic
        /\ ~ret.val.ok
        /\ C18Cos.den = 0
        /\ ret.val = IF C18Cos.num # 0 THEN IkWorkspaceError
                     ELSE IkErr("Target out of workspace: base joints complex")

\* solve_ik with l3 = 0 of a target at distance l2 from the shoulder: the
\* cosine is 0 / 0 and the error comes from the check of theta1 to theta3.
C29_Witness ==
    /\ C29ZeroLink
    /\ call.link_lengths = << 0, 2, 0, 0, 0 >>
    /\ C18Cos = [num |-> 0, den |-> 0]
    /\ ret = Returns(IkErr("Target out of workspace: base joints complex"))

\* solve_ik_from_pose on the arm of main.rs, whose link lengths have l3 = 0,
\* of the pose the arm is in: the cosine is infinite and the call fails.
C29WitnessMain ==
    /\ call.name = "solve_ik_from_pose"
    /\ call.link_lengths = << 9, 34, 0, 32, 15 >>
    /\ call.target = EndEffectorPose(arm)
    /\ C18Cos.den = 0 /\ C18Cos.num # 0
    /\ ret = Returns(IkWorkspaceError)

\* The last call of step returned an error.
C30StepFailed == call.name = "step" /\ ~ret.val.ok

C30OnlyLengthError ==
    C30StepFailed =>
        /\ Len(arm.joints) # 6
        /\ ret.val.err = "Expected Vec<f64> of length 6, got " \o ToString(Len(arm.joints))

\* A step that succeeds with a nonzero command.
C30WitnessOk ==
    /\ call.name = "step"
    /\ ret.val.ok
    /\ ret.val.val.num # Zeros(6)
    /\ ctl.pid.integral # Zeros(6)

====
